---------------------------- MODULE Spec2Model ----------------------------
(***************************************************************************)
(* Virtual-table module bridge of the sqlite driver and the table          *)
(* providers that come with it (the fixtures of module_test.go and the     *)
(* vtab examples).                                                         *)
(*                                                                         *)
(* Several state machines share this module.  Each has its own variables,  *)
(* leaves the others' unchanged, and has its own specification:            *)
(*   Spec       one statement against a virtual table: BestIndex through   *)
(*              the dispatcher, Filter, and the engine's scan loop;        *)
(*   PlanSpec   BestIndex of each provider on every constraint set;        *)
(*   EchoSpec   a cursor of the echo example;                              *)
(*   CsvSpec    a table and a cursor of the csv example;                   *)
(*   UpdSpec    the updater fixture (Insert / Update / Delete);            *)
(*   StoreSpec  the csv table's writes and its file; WriteSpec adds UpdSpec;*)
(*   CreateSpec Create / Connect of the providers; RegSpec the registry;   *)
(*   PairSpec   two cursors on one table; WalkSpec one scan of a cursor;   *)
(*   RaceSpec   two threads in updaterTableX.Insert;                       *)
(*   PushSpec   a WHERE clause as BestIndex receives it;                   *)
(*   RxSpec     a REGEXP query on the re table; HookSpec the pre-update hook;*)
(*   FlushSpec  csvTable.flush step by step;                               *)
(*   StSpec     one call of the driver's stmt.exec / stmt.query.           *)
(*                                                                         *)
(* Go strings are sequences of one-character strings, so that prefixes,    *)
(* printing and parsing are computed and not assumed.                      *)
(***************************************************************************)
EXTENDS Integers, Sequences, FiniteSets, TLC

VARIABLES
    \* ---- one statement through the bridge
    pc,        \* "idle", "planned", "scan", "done", "failed"
    module,    \* name the table's module was registered under
    cons,      \* the engine's constraints of the statement (with their right-hand sides)
    info,      \* the vtab.IndexInfo as the provider's BestIndex left it
    eng,       \* what the dispatcher wrote into the engine's sqlite3_index_info
    cur,       \* the provider's cursor: [rows, pos]
    fcall,     \* the arguments of the Filter call the provider received
    out,       \* the rows the statement delivered to its caller
    err,       \* the key phrases of the statement's error message ({} = no error)
    \* ---- echo example
    ecur,      \* echoCursor: [open, rows, pos]
    eflt,      \* the arguments of the cursor's last Filter call
    ecall,     \* the last call on the cursor and its result
    \* ---- csv example
    ctab,      \* csvTable: [cols, rows, nextID]
    ccur,      \* csvCursor: [open, rows, pos]
    cflt,      \* the arguments of the cursor's last Filter call
    ccall,     \* the last call on the cursor and its result
    cfile,     \* the csv file on disk: [exists, lines, tmp]
    clast,     \* the last Create/Updater call on the csv table: [op, args, named, err, connected]
    \* ---- updater fixture
    utab,      \* updaterTableX: [rows, nextID]
    uhist,     \* history: [held: every rowid a row ever held, lastAuto: last rowid Insert chose]
    ulast,     \* the last Updater call: its arguments, results and the state before it
    \* ---- module construction, registration, sibling cursors
    mcall,     \* the last Create/Connect call of a provider and what it did
    reg,       \* the module registry and the last Register / table resolution
    pair,      \* two cursors opened on one table, and the last call on them
    \* ---- concurrent writers, pushdown, the re table, the pre-update hook, flush
    race,      \* two threads inside updaterTableX.Insert on one table
    push,      \* a WHERE predicate and the constraint BestIndex received for it
    rx,        \* one REGEXP query on a re table: pattern, omit, rows delivered
    hook,      \* a connection with a pre-update hook: the row and the hook's calls
    flush,     \* one run of csvTable.flush: its position and the files on disk
    \* ---- the driver's statements
    st,        \* one call of stmt.exec or stmt.query: locals, handles, Rows, allocations
    \* ---- the engine's scan loop
    walk       \* one scan of a cursor: the cursor, the Next calls since its Filter

bridgeVars == <<pc, module, cons, info, eng, cur, fcall, out, err>>
echoVars == <<ecur, eflt, ecall>>
csvVars == <<ctab, ccur, cflt, ccall, cfile, clast>>
updVars == <<utab, uhist, ulast>>
lateVars == <<race, push, rx, hook, flush, st, walk>>
extVars == <<mcall, reg, pair, lateVars>>
earlyVars == <<bridgeVars, echoVars, csvVars, updVars, mcall, reg, pair>>
vars == <<pc, module, cons, info, eng, cur, fcall, out, err,
          ecur, eflt, ecall, ctab, ccur, cflt, ccall, cfile, clast, utab, uhist, ulast,
          mcall, reg, pair, race, push, rx, hook, flush, st, walk>>

----------------------------------------------------------------------------
(* Bounds of the model.                                                    *)

\* constraints in one statement's WHERE clause
MaxCons == 2
\* data rows of the csv file
MaxCsvRows == 2
\* rows of the updater table
MaxUpdRows == 2
\* largest rowid a caller supplies to the updater table
MaxRowid == 2
\* configuration tokens of one CREATE VIRTUAL TABLE statement
MaxTokens == 2
MaxStmts == 4
\* statements (empty ones included) of the SQL text of one stmt.exec / stmt.query
MaxSql == 3
\* Next calls the engine makes on a cursor that is at its end already
MaxExtra == 2

\* math.MaxInt32, the largest idxNum of sqlite3_index_info
MaxInt32 == 2147483647
MinInt32 == -MaxInt32 - 1

\* A Go int is 64 bits wide and the model's integers are 32: IndexInfo.IdxNum
\* is kept as [hi, lo], standing for hi * 65536 + lo with 0 <= lo < 65536.
Wide(n) == [hi |-> n \div 65536, lo |-> n % 65536]
WideAdd(w, k) == [hi |-> w.hi + ((w.lo + k) \div 65536), lo |-> (w.lo + k) % 65536]
\* int(x) of an int32 x, and int32(w) of a w in range
Narrow(w) == w.hi * 65536 + w.lo

----------------------------------------------------------------------------
(* Strings and scalar values.                                              *)

NoStr == <<>>
s_alpha == <<"a", "l", "p", "h", "a">>
s_beta == <<"b", "e", "t", "a">>
s_alpine == <<"a", "l", "p", "i", "n", "e">>
s_gamma == <<"g", "a", "m", "m", "a">>
s_unexpected == <<"u", "n", "e", "x", "p", "e", "c", "t", "e", "d">>

\* A vtab.Value / driver.Value: nil, int64, float64 (counted in halves),
\* string, []byte, or a Go value of any other type.
VNull == [t |-> "null", s |-> <<>>, i |-> 0, b |-> <<>>]
VInt(n) == [t |-> "int", s |-> <<>>, i |-> n, b |-> <<>>]
VReal(h) == [t |-> "real", s |-> <<>>, i |-> h, b |-> <<>>]
VText(s) == [t |-> "text", s |-> s, i |-> 0, b |-> <<>>]
VBlob(b) == [t |-> "blob", s |-> <<>>, i |-> 0, b |-> b]
Unsupported == [t |-> "unsupported", s |-> <<>>, i |-> 0, b |-> <<>>]

ScalarTypes == {"null", "int", "real", "text", "blob"}

\* v.(string) with the ok result dropped: the string, or "" for any other type.
AsString(v) == IF v.t = "text" THEN v.s ELSE NoStr

\* SQL equality of two scalars compared without affinity (the columns are
\* declared without a type): NULL equals nothing, numbers compare by value,
\* text and blob only with their own class.
SqlEq(a, b) ==
    CASE a.t = "null" \/ b.t = "null" -> FALSE
      [] a.t = "int" /\ b.t = "int" -> a.i = b.i
      [] a.t = "real" /\ b.t = "real" -> a.i = b.i
      [] a.t = "int" /\ b.t = "real" -> 2 * a.i = b.i
      [] a.t = "real" /\ b.t = "int" -> a.i = 2 * b.i
      [] a.t = "text" /\ b.t = "text" -> a.s = b.s
      [] a.t = "blob" /\ b.t = "blob" -> a.b = b.b
      [] OTHER -> FALSE

----------------------------------------------------------------------------
(* IndexInfo and the providers' BestIndex.                                 *)

\* Constraint.ArgIndex of a constraint whose value the provider did not ask for.
NotRequested == -1

\* The IndexInfo the dispatcher hands to BestIndex for the engine's constraints cs.
NewIndexInfo(cs) ==
    [Constraints |-> [i \in 1..Len(cs) |->
                        [Column |-> cs[i].column, Op |-> cs[i].op, Usable |-> cs[i].usable,
                         ArgIndex |-> NotRequested, Omit |-> FALSE]],
     IdxNum |-> Wide(0),
     IdxStr |-> NoStr]

\* The first of the indexes hits, or 0: where a loop over Constraints that stops
\* at the first constraint it can use stops.
FirstHit(hits) == IF hits = {} THEN 0 ELSE CHOOSE i \in hits : \A j \in hits : i <= j

\* dummyTable.BestIndex without its assignment to IdxNum
dummyTable_BestIndex_Unset(inf) == inf

dummyTable_BestIndex(inf) == [inf EXCEPT !.IdxNum = Wide(1)]

omitTableX_Hit(c) == c.Usable /\ c.Op = "EQ" /\ c.Column = 0

\* omitTableX.BestIndex without its assignment to Omit
omitTableX_BestIndex_NoOmit(omit, inf) ==
    LET i == FirstHit({k \in 1..Len(inf.Constraints) : omitTableX_Hit(inf.Constraints[k])})
    IN  IF i = 0 THEN inf ELSE [inf EXCEPT !.Constraints[i].ArgIndex = 0]

omitTableX_BestIndex(omit, inf) ==
    LET i == FirstHit({k \in 1..Len(inf.Constraints) : omitTableX_Hit(inf.Constraints[k])})
    IN  IF i = 0 THEN inf
        ELSE [inf EXCEPT !.Constraints[i].ArgIndex = 0, !.Constraints[i].Omit = omit]

argIndexTable_Hit(c) == c.Usable /\ c.Op = "EQ"

\* The loop of argIndexTable.BestIndex over Constraints[i..], with next slots given out.
RECURSIVE argIndexTable_Loop(_, _, _)
argIndexTable_Loop(inf, i, next) ==
    IF i > Len(inf.Constraints) THEN inf
    ELSE IF ~argIndexTable_Hit(inf.Constraints[i]) THEN argIndexTable_Loop(inf, i + 1, next)
    ELSE argIndexTable_Loop([inf EXCEPT !.Constraints[i].ArgIndex = next], i + 1, next + 1)

\* argIndexTable.BestIndex without next++: every constraint gets slot 0
argIndexTable_BestIndex_SameSlot(inf) ==
    [inf EXCEPT !.Constraints =
        [i \in 1..Len(inf.Constraints) |->
           IF argIndexTable_Hit(inf.Constraints[i])
           THEN [inf.Constraints[i] EXCEPT !.ArgIndex = 0]
           ELSE inf.Constraints[i]]]

argIndexTable_BestIndex(inf) == argIndexTable_Loop(inf, 1, 0)

\* overflowIdxTable.BestIndex with the largest IdxNum that still fits
overflowIdxTable_BestIndex_Fits(inf) == [inf EXCEPT !.IdxNum = Wide(MaxInt32)]

overflowIdxTable_BestIndex(inf) == [inf EXCEPT !.IdxNum = WideAdd(Wide(MaxInt32), 1)]

badcolTable_BestIndex(inf) == inf

\* A provider written by an application: it may choose any plan tag.
anyTable_BestIndex(inf, plan) == [inf EXCEPT !.IdxNum = plan.idxNum, !.IdxStr = plan.idxStr]

Table_BestIndex(m, inf, plan) ==
    CASE m = "dummy" -> dummyTable_BestIndex(inf)
      [] m = "omit_off" -> omitTableX_BestIndex(FALSE, inf)
      [] m = "omit_on" -> omitTableX_BestIndex(TRUE, inf)
      [] m = "argtest" -> argIndexTable_BestIndex(inf)
      [] m = "overflow_idx" -> overflowIdxTable_BestIndex(inf)
      [] m = "badcol" -> badcolTable_BestIndex(inf)
      [] m = "any" -> anyTable_BestIndex(inf, plan)

----------------------------------------------------------------------------
(* The cursors of the fixtures.  A cursor is [rows, pos]; a row is         *)
(* [rowid, val].                                                           *)

Row(id, v) == [rowid |-> id, val |-> v]
NoCursor == [rows |-> <<>>, pos |-> 0]
\* What a callback returns when the provider's code panics (index out of range).
Panic == [t |-> "panic", s |-> <<>>, i |-> 0, b |-> <<>>]

dummyCursor_Filter(c, idxNum, idxStr, vals) ==
    IF idxNum = 1
    THEN [rows |-> <<Row(1, VText(s_alpha)), Row(2, VText(s_beta))>>, pos |-> 0]
    ELSE [rows |-> <<Row(1, VText(s_unexpected))>>, pos |-> 0]

dummyCursor_Column(c, col) ==
    IF c.pos < 0 \/ c.pos >= Len(c.rows) THEN VNull
    ELSE IF col = 0 THEN c.rows[c.pos + 1].val
    ELSE VNull

omitCursorX_Filter(c, idxNum, idxStr, vals) ==
    [rows |-> <<Row(1, VText(s_alpha)), Row(2, VText(s_beta))>>, pos |-> 0]

omitCursorX_Column(c, col) ==
    IF col = 0
    THEN (IF c.pos < 0 \/ c.pos >= Len(c.rows) THEN Panic ELSE c.rows[c.pos + 1].val)
    ELSE VNull

argIndexCursor_Filter(c, idxNum, idxStr, vals) == [rows |-> <<Row(1, VNull)>>, pos |-> 0]

argIndexCursor_Column(c, col) == VNull

overflowIdxCursor_Filter(c, idxNum, idxStr, vals) == c

\* badcolCursor keeps only pos and is at Eof once pos >= 1: one row, whose
\* every column is a value of an unsupported type.
badcolCursor_Open == [rows |-> <<Row(1, Unsupported)>>, pos |-> 0]

badcolCursor_Filter(c, idxNum, idxStr, vals) == [c EXCEPT !.pos = 0]

\* badcolCursor.Column returning nil
badcolCursor_Column_Nil(c, col) == VNull

badcolCursor_Column(c, col) == Unsupported

\* dummyCursor.Next, and the same three lines in every other fixture
Cursor_Next(c) == IF c.pos < Len(c.rows) THEN [c EXCEPT !.pos = c.pos + 1] ELSE c

Cursor_Eof(c) == c.pos >= Len(c.rows)

Module_Filter(m, c, idxNum, idxStr, vals) ==
    CASE m = "dummy" -> dummyCursor_Filter(c, idxNum, idxStr, vals)
      [] m \in {"omit_off", "omit_on"} -> omitCursorX_Filter(c, idxNum, idxStr, vals)
      [] m = "argtest" -> argIndexCursor_Filter(c, idxNum, idxStr, vals)
      [] m = "badcol" -> badcolCursor_Filter(c, idxNum, idxStr, vals)
      [] OTHER -> overflowIdxCursor_Filter(c, idxNum, idxStr, vals)

Module_Column(m, c, col) ==
    CASE m = "dummy" -> dummyCursor_Column(c, col)
      [] m \in {"omit_off", "omit_on"} -> omitCursorX_Column(c, col)
      [] m = "badcol" -> badcolCursor_Column(c, col)
      [] OTHER -> argIndexCursor_Column(c, col)

Module_Open(m) == IF m = "badcol" THEN badcolCursor_Open ELSE NoCursor

----------------------------------------------------------------------------
(* The dispatcher (the trampolines between the engine and a provider) and  *)
(* the engine's side of one statement  SELECT <column 0> FROM t WHERE ...  *)

Modules == {"dummy", "omit_off", "omit_on", "argtest", "overflow_idx", "badcol", "any"}

\* Right-hand sides of the WHERE clause's comparisons.
RhsVals == {VText(s_alpha), VInt(10), VInt(20)}

\* One constraint as the engine holds it.
EngineConstraints ==
    [column : {0, 1}, op : {"EQ"}, usable : BOOLEAN, rhs : RhsVals]
    \cup [column : {0, 1}, op : {"ISNULL"}, usable : BOOLEAN, rhs : {VNull}]

SeqsUpTo(S, n) == UNION {[1..k -> S] : k \in 0..n}

ConstraintSets == SeqsUpTo(EngineConstraints, MaxCons)

\* Plan tags an application's provider may set.
AnyPlans ==
    [idxNum : {WideAdd(Wide(MinInt32), -1), Wide(MinInt32), Wide(-1), Wide(0), Wide(1),
               Wide(MaxInt32), WideAdd(Wide(MaxInt32), 1)},
     idxStr : {NoStr, <<"p">>}]

NoEngine == [set |-> FALSE, argvIndex |-> <<>>, omit |-> <<>>, idxNum |-> 0, idxStr |-> NoStr]
NoCall == [called |-> FALSE, idxNum |-> 0, idxStr |-> NoStr, vals |-> <<>>]

ErrIdxNum == {"IdxNum", "int32"}
ErrBadValue == {"did not return a valid driver.Value"}
ErrBadPlan == {"xBestIndex malfunction"}

\* IdxNum must fit sqlite3_index_info.idxNum, an int32.
IdxNumFits(w) == Wide(MinInt32).hi <= w.hi /\ w.hi <= Wide(MaxInt32).hi

\* What the dispatcher copies back into sqlite3_index_info: argvIndex is 1-based
\* there, 0 meaning that the value is not wanted.
ToEngine(inf) ==
    [set |-> TRUE,
     argvIndex |-> [i \in 1..Len(inf.Constraints) |->
                      IF inf.Constraints[i].ArgIndex >= 0
                      THEN inf.Constraints[i].ArgIndex + 1 ELSE 0],
     omit |-> [i \in 1..Len(inf.Constraints) |-> inf.Constraints[i].Omit],
     idxNum |-> Narrow(inf.IdxNum),
     idxStr |-> inf.IdxStr]

\* The number of argv slots a plan asks for.
NArgs(e) ==
    LET used == {e.argvIndex[i] : i \in 1..Len(e.argvIndex)} \ {0}
    IN  IF used = {} THEN 0 ELSE CHOOSE n \in used : \A k \in used : k <= n

\* The engine accepts a plan only if slots 1..n are each asked for by exactly one
\* constraint, and that constraint is usable.
PlanAccepted(cs, e) ==
    /\ \A k \in 1..NArgs(e) : Cardinality({i \in 1..Len(cs) : e.argvIndex[i] = k}) = 1
    /\ \A i \in 1..Len(cs) : e.argvIndex[i] > 0 => cs[i].usable

\* argv of xFilter: slot k holds the right-hand side of the constraint that asked for it.
Argv(cs, e) ==
    [k \in 1..NArgs(e) |-> cs[CHOOSE i \in 1..Len(cs) : e.argvIndex[i] = k].rhs]

\* xBestIndex: build the IndexInfo, call the provider, check and copy back.
VtabBestIndex ==
    /\ pc = "idle"
    /\ \E m \in Modules, cs \in ConstraintSets, plan \in AnyPlans :
         LET inf == Table_BestIndex(m, NewIndexInfo(cs), plan)
         IN  /\ module' = m
             /\ cons' = cs
             /\ info' = inf
             /\ IF ~IdxNumFits(inf.IdxNum)
                THEN pc' = "failed" /\ err' = ErrIdxNum /\ eng' = eng
                ELSE IF ~PlanAccepted(cs, ToEngine(inf))
                THEN pc' = "failed" /\ err' = ErrBadPlan /\ eng' = ToEngine(inf)
                ELSE pc' = "planned" /\ err' = {} /\ eng' = ToEngine(inf)
    /\ UNCHANGED <<cur, fcall, out, echoVars, csvVars, updVars, extVars>>

\* xOpen
VtabOpen ==
    /\ pc = "planned"
    /\ pc' = "open"
    /\ cur' = Module_Open(module)
    /\ UNCHANGED <<module, cons, info, eng, fcall, out, err, echoVars, csvVars, updVars, extVars>>

\* xFilter: the plan tag and argv of the engine go to the provider's Filter.
VtabFilter ==
    /\ pc = "open"
    /\ pc' = "scan"
    /\ fcall' = [called |-> TRUE, idxNum |-> eng.idxNum, idxStr |-> eng.idxStr,
                 vals |-> Argv(cons, eng)]
    /\ cur' = Module_Filter(module, cur, eng.idxNum, eng.idxStr, Argv(cons, eng))
    /\ UNCHANGED <<module, cons, info, eng, out, err, echoVars, csvVars, updVars, extVars>>

\* Whether a value satisfies a constraint of the WHERE clause.
Satisfies(c, v) == IF c.op = "EQ" THEN SqlEq(v, c.rhs) ELSE v.t = "null"

\* The engine does not evaluate a constraint the plan took over with omit.
Rechecked(e, i) == ~(e.omit[i] /\ e.argvIndex[i] > 0)

\* One turn of the scan loop: xEof, then xColumn for the columns the statement
\* reads, the engine's re-check of the WHERE clause, and xNext.
VtabStep ==
    /\ pc = "scan"
    /\ IF Cursor_Eof(cur)
       THEN pc' = "done" /\ UNCHANGED <<cur, out, err>>
       ELSE LET read == {0} \cup {cons[i].column : i \in 1..Len(cons)}
                val(col) == Module_Column(module, cur, col)
                keep == \A i \in 1..Len(cons) :
                           Rechecked(eng, i) => Satisfies(cons[i], val(cons[i].column))
            IN  IF \E col \in read : val(col).t \notin ScalarTypes
                THEN pc' = "failed" /\ err' = ErrBadValue /\ UNCHANGED <<cur, out>>
                ELSE /\ out' = IF keep THEN Append(out, val(0)) ELSE out
                     /\ cur' = Cursor_Next(cur)
                     /\ UNCHANGED <<pc, err>>
    /\ UNCHANGED <<module, cons, info, eng, fcall, echoVars, csvVars, updVars, extVars>>

BridgeIdle ==
    /\ pc = "idle" /\ module = "dummy" /\ cons = <<>>
    /\ info = NewIndexInfo(<<>>) /\ eng = NoEngine /\ cur = NoCursor
    /\ fcall = NoCall /\ out = <<>> /\ err = {}

\* sqlite3_finalize: the statement is over, the connection takes the next one.
VtabFinalize ==
    /\ pc \in {"done", "failed"}
    /\ pc' = "idle" /\ module' = "dummy" /\ cons' = <<>>
    /\ info' = NewIndexInfo(<<>>) /\ eng' = NoEngine /\ cur' = NoCursor
    /\ fcall' = NoCall /\ out' = <<>> /\ err' = {}
    /\ UNCHANGED <<echoVars, csvVars, updVars, extVars>>

----------------------------------------------------------------------------
(* examples/vtab_basic: the echo table.                                    *)

echoAll == <<s_alpha, s_beta, s_alpine>>

echoTable_Hit(c) == c.Usable /\ c.Column = 0 /\ c.Op \in {"EQ", "LIKE"}

\* echoTable.BestIndex numbering the argument from 1, as the engine's argvIndex does
echoTable_BestIndex_OneBased(inf) ==
    LET i == FirstHit({k \in 1..Len(inf.Constraints) : echoTable_Hit(inf.Constraints[k])})
    IN  IF i = 0 THEN [inf EXCEPT !.IdxNum = Wide(0)]
        ELSE [inf EXCEPT !.Constraints[i].ArgIndex = 1,
                         !.IdxNum = IF inf.Constraints[i].Op = "EQ" THEN Wide(1) ELSE Wide(2)]

echoTable_BestIndex(inf) ==
    LET i == FirstHit({k \in 1..Len(inf.Constraints) : echoTable_Hit(inf.Constraints[k])})
    IN  IF i = 0 THEN [inf EXCEPT !.IdxNum = Wide(0)]
        ELSE IF inf.Constraints[i].Op = "EQ"
        THEN [inf EXCEPT !.Constraints[i].ArgIndex = 0, !.Constraints[i].Omit = TRUE,
                         !.IdxNum = Wide(1)]
        ELSE [inf EXCEPT !.Constraints[i].ArgIndex = 0, !.IdxNum = Wide(2)]

echoTable_Open == [open |-> TRUE, rows |-> echoAll, pos |-> 0]

\* s[:len(prefix)] == prefix, guarded by the length test
HasPrefix(s, prefix) == Len(s) >= Len(prefix) /\ SubSeq(s, 1, Len(prefix)) = prefix

\* The equality plan comparing as the LIKE plan does, by prefix
echoCursor_FilterEQ_Prefix(vals) ==
    LET want == AsString(vals[1])
        Eq(s) == HasPrefix(s, want)
    IN  SelectSeq(echoAll, Eq)

\* The rows Filter keeps for the equality plan.
echoCursor_FilterEQ(vals) ==
    LET want == AsString(vals[1])
        Eq(s) == s = want
    IN  SelectSeq(echoAll, Eq)

\* The rows Filter keeps for the LIKE plan: a trailing % is cut off the pattern
\* and what is left is taken as a prefix.
echoCursor_FilterLIKE(vals) ==
    LET pat == AsString(vals[1])
        n == Len(pat)
        prefix == IF n > 0 /\ pat[n] = "%" THEN SubSeq(pat, 1, n - 1) ELSE pat
        Like(s) == Len(prefix) = 0 \/ HasPrefix(s, prefix)
    IN  SelectSeq(echoAll, Like)

echoCursor_Filter(c, idxNum, idxStr, vals) ==
    [c EXCEPT !.pos = 0,
              !.rows = CASE idxNum = 1 /\ Len(vals) = 1 -> echoCursor_FilterEQ(vals)
                         [] idxNum = 2 /\ Len(vals) = 1 -> echoCursor_FilterLIKE(vals)
                         [] OTHER -> echoAll]

echoCursor_Next(c) == IF c.pos < Len(c.rows) THEN [c EXCEPT !.pos = c.pos + 1] ELSE c

\* Eof that is true only once the position is past the end
echoCursor_Eof_PastEnd(c) == c.pos > Len(c.rows)

echoCursor_Eof(c) == c.pos >= Len(c.rows)

echoCursor_Column(c, col) ==
    IF col = 0 /\ c.pos < Len(c.rows) THEN VText(c.rows[c.pos + 1]) ELSE VNull

echoCursor_Rowid(c) == c.pos + 1

\* Values the engine may hand to Filter: texts in and out of the data set, LIKE
\* patterns, and every other scalar type.
EchoArgVals ==
    {VText(s_alpha), VText(s_beta), VText(s_gamma), VText(NoStr),
     VText(<<"a", "l", "%">>), VText(<<"%">>), VText(<<"%", "a">>), VText(<<"A", "L", "%">>),
     VNull, VInt(1), VReal(3), VBlob(<<97, 108, 112, 104, 97>>)}

\* argv of a Filter call: the echo and csv tables ask for at most one value.
ArgvOf(V) == {<<>>} \cup {<<v>> : v \in V}

ClosedCursor == [open |-> FALSE, rows |-> <<>>, pos |-> 0]
NoFilter == [called |-> FALSE, idxNum |-> 0, idxStr |-> NoStr, vals |-> <<>>]
NoRet == [op |-> "none", col |-> 0, ret |-> VNull]

EchoIdle == ecur = ClosedCursor /\ eflt = NoFilter /\ ecall = NoRet

EchoOpen ==
    /\ ~ecur.open
    /\ ecur' = echoTable_Open
    /\ eflt' = NoFilter
    /\ ecall' = [op |-> "Open", col |-> 0, ret |-> VNull]
    /\ UNCHANGED <<bridgeVars, csvVars, updVars, extVars>>

EchoFilter ==
    /\ ecur.open
    /\ \E idxNum \in 0..3, idxStr \in {NoStr, <<"p">>}, vals \in ArgvOf(EchoArgVals) :
         /\ ecur' = echoCursor_Filter(ecur, idxNum, idxStr, vals)
         /\ eflt' = [called |-> TRUE, idxNum |-> idxNum, idxStr |-> idxStr, vals |-> vals]
    /\ ecall' = [op |-> "Filter", col |-> 0, ret |-> VNull]
    /\ UNCHANGED <<bridgeVars, csvVars, updVars, extVars>>

EchoNext ==
    /\ ecur.open
    /\ ecur' = echoCursor_Next(ecur)
    /\ ecall' = [op |-> "Next", col |-> 0, ret |-> VNull]
    /\ UNCHANGED <<eflt, bridgeVars, csvVars, updVars, extVars>>

EchoColumn ==
    /\ ecur.open
    /\ \E col \in 0..1 :
         ecall' = [op |-> "Column", col |-> col, ret |-> echoCursor_Column(ecur, col)]
    /\ UNCHANGED <<ecur, eflt, bridgeVars, csvVars, updVars, extVars>>

EchoRowid ==
    /\ ecur.open
    /\ ecall' = [op |-> "Rowid", col |-> 0, ret |-> VInt(echoCursor_Rowid(ecur))]
    /\ UNCHANGED <<ecur, eflt, bridgeVars, csvVars, updVars, extVars>>

\* Close returns nil and keeps nothing; the dispatcher drops the cursor.
EchoClose ==
    /\ ecur.open
    /\ ecur' = ClosedCursor
    /\ eflt' = NoFilter
    /\ ecall' = [op |-> "Close", col |-> 0, ret |-> VNull]
    /\ UNCHANGED <<bridgeVars, csvVars, updVars, extVars>>

----------------------------------------------------------------------------
(* Printing and parsing: strconv.Itoa, strconv.Atoi, fmt.Sprint.           *)

Digits == <<"0", "1", "2", "3", "4", "5", "6", "7", "8", "9">>
DigitChars == {Digits[d] : d \in 1..10}
DigitVal(ch) == (CHOOSE d \in 1..10 : Digits[d] = ch) - 1

RECURSIVE UItoa(_)
UItoa(n) == IF n < 10 THEN <<Digits[n + 1]>> ELSE UItoa(n \div 10) \o <<Digits[(n % 10) + 1]>>

Itoa(n) == IF n < 0 THEN <<"-">> \o UItoa(-n) ELSE UItoa(n)

RECURSIVE UAtoi(_, _)
UAtoi(s, acc) == IF s = <<>> THEN acc ELSE UAtoi(Tail(s), 10 * acc + DigitVal(Head(s)))

\* strconv.Atoi: an optional sign and at least one decimal digit, nothing else.
Atoi(s) ==
    LET signed == Len(s) > 0 /\ s[1] \in {"+", "-"}
        digits == IF signed THEN Tail(s) ELSE s
        ok == Len(digits) > 0 /\ \A k \in 1..Len(digits) : digits[k] \in DigitChars
    IN  IF ~ok THEN [ok |-> FALSE, n |-> 0]
        ELSE [ok |-> TRUE,
              n |-> IF signed /\ s[1] = "-" THEN -UAtoi(digits, 0) ELSE UAtoi(digits, 0)]

RECURSIVE JoinBytes(_)
JoinBytes(b) ==
    IF b = <<>> THEN <<>>
    ELSE IF Len(b) = 1 THEN Itoa(b[1])
    ELSE Itoa(b[1]) \o <<" ">> \o JoinBytes(Tail(b))

\* fmt.Sprint of one value (%v): nil prints as <nil>, an int64 in decimal, a
\* float64 in its shortest form, a string as itself, a []byte as [97 98].
Sprint(v) ==
    CASE v.t = "null" -> <<"<", "n", "i", "l", ">">>
      [] v.t = "int" -> Itoa(v.i)
      [] v.t = "real" ->
           LET a == IF v.i < 0 THEN -v.i ELSE v.i
               whole == (IF v.i < 0 THEN <<"-">> ELSE <<>>) \o UItoa(a \div 2)
           IN  IF a % 2 = 0 THEN whole ELSE whole \o <<".", "5">>
      [] v.t = "text" -> v.s
      [] v.t = "blob" -> <<"[">> \o JoinBytes(v.b) \o <<"]">>

----------------------------------------------------------------------------
(* The csv example: a table loaded from a file, and its cursor.            *)

\* BestIndex taking an equality on any column number, the rowid's included
csvTable_Hit_AnyColumn(t, c) == c.Usable /\ c.Op = "EQ"

csvTable_Hit(t, c) ==
    c.Usable /\ c.Op = "EQ" /\ c.Column >= 0 /\ c.Column < Len(t.cols)

csvTable_BestIndex(t, inf) ==
    LET Hit(c) == csvTable_Hit(t, c)
        i == FirstHit({k \in 1..Len(inf.Constraints) : Hit(inf.Constraints[k])})
    IN  IF i = 0 THEN [inf EXCEPT !.IdxNum = Wide(0)]
        ELSE [inf EXCEPT !.Constraints[i].ArgIndex = 0, !.Constraints[i].Omit = TRUE,
                         !.IdxNum = Wide(1), !.IdxStr = Itoa(inf.Constraints[i].Column)]

csvTable_Open(t) == [open |-> TRUE, rows |-> t.rows, pos |-> 0]

\* The rows Filter keeps under the equality plan: the cells of column col are
\* compared with the printed form of the argument.
csvCursor_FilterEQ(rows, col, vals) ==
    LET target == Sprint(vals[1])
        Eq(r) == col < Len(r) /\ r[col + 1] = target
    IN  SelectSeq(rows, Eq)

\* Filter narrowing the rows the cursor already holds instead of the table's
csvCursor_Filter_Narrowing(c, t, idxNum, idxStr, vals) ==
    LET col == Atoi(idxStr)
    IN  [c EXCEPT !.pos = 0,
                  !.rows = IF idxNum # 1 THEN c.rows
                           ELSE IF ~col.ok \/ col.n < 0 \/ col.n >= Len(t.cols) THEN c.rows
                           ELSE IF Len(vals) = 0 THEN c.rows
                           ELSE csvCursor_FilterEQ(c.rows, col.n, vals)]

csvCursor_Filter(c, t, idxNum, idxStr, vals) ==
    LET col == Atoi(idxStr)
    IN  [c EXCEPT !.pos = 0,
                  !.rows = IF idxNum # 1 THEN t.rows
                           ELSE IF ~col.ok \/ col.n < 0 \/ col.n >= Len(t.cols) THEN t.rows
                           ELSE IF Len(vals) = 0 THEN t.rows
                           ELSE csvCursor_FilterEQ(t.rows, col.n, vals)]

\* Next without the guard at the end of the rows
csvCursor_Next_Unguarded(c) == [c EXCEPT !.pos = c.pos + 1]

csvCursor_Next(c) == IF c.pos < Len(c.rows) THEN [c EXCEPT !.pos = c.pos + 1] ELSE c

csvCursor_Eof(c) == c.pos >= Len(c.rows)

\* c.rows[c.pos][col] panics for a negative col.
csvCursor_Column(c, t, col) ==
    IF c.pos >= Len(c.rows) \/ col >= Len(t.cols) THEN VNull
    ELSE IF col < 0 \/ col >= Len(c.rows[c.pos + 1]) THEN Panic
    ELSE VText(c.rows[c.pos + 1][col + 1])

csvCursor_Rowid(c) == c.pos + 1

s_nil == <<"<", "n", "i", "l", ">">>
CsvCols == <<(<<"c", "1">>), (<<"c", "2">>)>>
\* The cells of the file.
CsvCells == {<<"5">>, s_nil}
\* The records of the file, each with one field per column.
CsvRecords == [1..Len(CsvCols) -> CsvCells]

\* A table as loadCSV returns it for a file with a header line: nextID is one
\* past the number of rows.
LoadedTable(rows) ==
    [cols |-> CsvCols, rows |-> rows, nextID |-> Len(rows) + 1, header |-> TRUE]

\* The file on disk as lines, each line a record, and whether a file
\* "<name>.tmp" lies beside it.
NoFile == [exists |-> FALSE, lines |-> <<>>, tmp |-> FALSE]

FileOf(lines) == [exists |-> TRUE, lines |-> lines, tmp |-> FALSE]

NoCsvCall ==
    [op |-> "none", args |-> <<>>, named |-> FALSE, err |-> FALSE, connected |-> FALSE]

CsvArgVals ==
    {VText(<<"5">>), VText(<<"b">>), VInt(5), VInt(7), VNull, VReal(10), VBlob(<<53>>)}

CsvIdxStrs == {NoStr, <<"0">>, <<"1">>, <<"2">>, <<"x">>}

CsvIdle ==
    /\ ctab = LoadedTable(<<>>) /\ ccur = ClosedCursor /\ cflt = NoFilter /\ ccall = NoRet
    /\ cfile = NoFile /\ clast = NoCsvCall

CsvInit ==
    /\ ctab \in {LoadedTable(rows) : rows \in SeqsUpTo(CsvRecords, MaxCsvRows)}
    /\ ccur = ClosedCursor /\ cflt = NoFilter /\ ccall = NoRet
    /\ cfile = FileOf(<<CsvCols>> \o ctab.rows)
    /\ clast = [NoCsvCall EXCEPT !.op = "Create", !.connected = TRUE]

CsvOpen ==
    /\ ~ccur.open
    /\ ccur' = csvTable_Open(ctab)
    /\ cflt' = NoFilter
    /\ ccall' = [op |-> "Open", col |-> 0, ret |-> VNull]
    /\ UNCHANGED <<ctab, cfile, clast, bridgeVars, echoVars, updVars, extVars>>

CsvFilter ==
    /\ ccur.open
    /\ \E idxNum \in 0..1, idxStr \in CsvIdxStrs, vals \in ArgvOf(CsvArgVals) :
         /\ ccur' = csvCursor_Filter(ccur, ctab, idxNum, idxStr, vals)
         /\ cflt' = [called |-> TRUE, idxNum |-> idxNum, idxStr |-> idxStr, vals |-> vals]
    /\ ccall' = [op |-> "Filter", col |-> 0, ret |-> VNull]
    /\ UNCHANGED <<ctab, cfile, clast, bridgeVars, echoVars, updVars, extVars>>

CsvNext ==
    /\ ccur.open
    /\ ccur' = csvCursor_Next(ccur)
    /\ ccall' = [op |-> "Next", col |-> 0, ret |-> VNull]
    /\ UNCHANGED <<ctab, cfile, clast, cflt, bridgeVars, echoVars, updVars, extVars>>

CsvColumn ==
    /\ ccur.open
    /\ \E col \in 0..Len(ctab.cols) :
         ccall' = [op |-> "Column", col |-> col, ret |-> csvCursor_Column(ccur, ctab, col)]
    /\ UNCHANGED <<ctab, cfile, clast, ccur, cflt, bridgeVars, echoVars, updVars, extVars>>

CsvRowid ==
    /\ ccur.open
    /\ ccall' = [op |-> "Rowid", col |-> 0, ret |-> VInt(csvCursor_Rowid(ccur))]
    /\ UNCHANGED <<ctab, cfile, clast, ccur, cflt, bridgeVars, echoVars, updVars, extVars>>

CsvClose ==
    /\ ccur.open
    /\ ccur' = ClosedCursor
    /\ cflt' = NoFilter
    /\ ccall' = [op |-> "Close", col |-> 0, ret |-> VNull]
    /\ UNCHANGED <<ctab, cfile, clast, bridgeVars, echoVars, updVars, extVars>>

----------------------------------------------------------------------------
(* The csv example: Create / Connect, and the Updater that rewrites the    *)
(* file.  Files are kept as lines of records; they use the default         *)
(* delimiter and quote.                                                    *)

k_filename == <<"f", "i", "l", "e", "n", "a", "m", "e">>
k_delimiter == <<"d", "e", "l", "i", "m", "i", "t", "e", "r">>
k_header == <<"h", "e", "a", "d", "e", "r">>
k_quote == <<"q", "u", "o", "t", "e">>

\* strings.SplitN(a, "=", 2): the key, and the value after the first "=" if any.
SplitEq(a) ==
    LET eqs == {i \in 1..Len(a) : a[i] = "="}
        i == IF eqs = {} THEN 0 ELSE CHOOSE k \in eqs : \A j \in eqs : k <= j
    IN  IF i = 0 THEN [k |-> a, two |-> FALSE, v |-> NoStr]
        ELSE [k |-> SubSeq(a, 1, i - 1), two |-> TRUE, v |-> SubSeq(a, i + 1, Len(a))]

unquote(s) ==
    IF /\ Len(s) >= 2
       /\ \/ s[1] = "\"" /\ s[Len(s)] = "\""
          \/ s[1] = "'" /\ s[Len(s)] = "'"
    THEN SubSeq(s, 2, Len(s) - 1)
    ELSE s

\* strings.ToLower, on the letters the header values are written with.
LowerCh(ch) ==
    CASE ch = "A" -> "a" [] ch = "E" -> "e" [] ch = "F" -> "f" [] ch = "L" -> "l"
      [] ch = "N" -> "n" [] ch = "O" -> "o" [] ch = "R" -> "r" [] ch = "S" -> "s"
      [] ch = "T" -> "t" [] ch = "U" -> "u" [] ch = "Y" -> "y" [] OTHER -> ch

ToLower(s) == [i \in 1..Len(s) |-> LowerCh(s[i])]

DefaultCSVArgs == [file |-> NoStr, delim |-> ",", header |-> TRUE, quote |-> "\""]

\* One turn of the loop of parseCSVArgs: token a applied to the result so far.
parseCSVArg(acc, a) ==
    LET kv == SplitEq(a)
        v == IF kv.two THEN unquote(kv.v) ELSE NoStr
        lv == ToLower(v)
    IN  CASE kv.k = k_filename -> [acc EXCEPT !.file = v]
          [] kv.k = k_delimiter ->
               IF v = <<"\\", "t">> \/ v = <<"\t">> THEN [acc EXCEPT !.delim = "\t"]
               ELSE IF v # NoStr THEN [acc EXCEPT !.delim = v[1]]
               ELSE acc
          [] kv.k = k_header ->
               IF lv \in {<<"f", "a", "l", "s", "e">>, <<"0">>, <<"n", "o">>}
               THEN [acc EXCEPT !.header = FALSE]
               ELSE IF lv \in {<<"t", "r", "u", "e">>, <<"1">>, <<"y", "e", "s">>}
               THEN [acc EXCEPT !.header = TRUE]
               ELSE acc
          [] kv.k = k_quote -> IF v # NoStr THEN [acc EXCEPT !.quote = v[1]] ELSE acc
          [] OTHER -> acc

RECURSIVE parseCSVLoop(_, _)
parseCSVLoop(acc, args) ==
    IF args = <<>> THEN acc ELSE parseCSVLoop(parseCSVArg(acc, Head(args)), Tail(args))

\* parseCSVArgs that keeps the first filename it is given
parseCSVArgs_FirstFile(args) ==
    LET named == {i \in 1..Len(args) : SplitEq(args[i]).k = k_filename}
        first == IF named = {} THEN 0 ELSE CHOOSE i \in named : \A j \in named : i <= j
        Keep(i) == i \notin named \/ i = first
        kept == {i \in 1..Len(args) : Keep(i)}
        Nth(k) == CHOOSE i \in kept : Cardinality({j \in kept : j <= i}) = k
    IN  parseCSVLoop(DefaultCSVArgs, [k \in 1..Cardinality(kept) |-> args[Nth(k)]])

parseCSVArgs(args) == parseCSVLoop(DefaultCSVArgs, args)

\* csv.Reader.ReadAll, by records: a line that holds nothing is skipped, and a
\* record of one empty field is written as such a line.
ReadAll(lines) ==
    LET Holds(r) == r # <<>> /\ r # <<NoStr>>
    IN  SelectSeq(lines, Holds)

\* A record cut or padded with empty fields to n fields.
Fit(r, n) == [i \in 1..n |-> IF i <= Len(r) THEN r[i] ELSE NoStr]

NoTable == [cols |-> <<>>, rows |-> <<>>, nextID |-> 0, header |-> TRUE]

\* loadCSV(file, delim, header, quote) for the comma and the double quote.
loadCSV(f, header) ==
    LET all == ReadAll(f.lines)
        hdr == IF header THEN all[1] ELSE [i \in 1..Len(all[1]) |-> <<"c">> \o Itoa(i)]
        recs == IF header THEN Tail(all) ELSE all
        rows == [k \in 1..Len(recs) |-> Fit(recs[k], Len(hdr))]
    IN  IF ~f.exists \/ all = <<>> THEN [ok |-> FALSE, t |-> NoTable]
        ELSE [ok |-> TRUE,
              t |-> [cols |-> hdr, rows |-> rows, nextID |-> Len(rows) + 1,
                     header |-> header]]

\* The one path that may hold a file; os.ReadFile fails for every other name.
DiskPath == <<"f">>

\* csvModule.Create (Connect is the same call): the table if there is one, the
\* number of ctx.Declare calls, and the path of the file it read ("" if none).
csvModule_Create(args, f, declErr) ==
    LET p == parseCSVArgs(SubSeq(args, 4, Len(args)))
        loaded == loadCSV(IF p.file = DiskPath THEN f ELSE NoFile, p.header)
        none == [panic |-> FALSE, ok |-> FALSE, t |-> NoTable, declares |-> 0,
                 read |-> NoStr, err |-> "none"]
    IN  IF Len(args) < 3 THEN [none EXCEPT !.panic = TRUE, !.err = "panic"]
        ELSE IF p.file = NoStr THEN [none EXCEPT !.err = "csv: require filename=... arg"]
        ELSE IF ~loaded.ok THEN [none EXCEPT !.read = p.file, !.err = "load"]
        ELSE IF declErr THEN [none EXCEPT !.read = p.file, !.declares = 1, !.err = "declare"]
        ELSE [none EXCEPT !.ok = TRUE, !.t = loaded.t, !.read = p.file, !.declares = 1]

\* valuesToStrings(vals, n): n fields, a nil or missing value gives "".
\* valuesToStrings giving one string per value, whatever n is
valuesToStrings_AsGiven(vals, n) ==
    [i \in 1..Len(vals) |-> IF vals[i].t # "null" THEN Sprint(vals[i]) ELSE NoStr]

valuesToStrings(vals, n) ==
    [i \in 1..n |-> IF i <= Len(vals) /\ vals[i].t # "null" THEN Sprint(vals[i]) ELSE NoStr]

\* What os.WriteFile and os.Rename may do in flush.
IoOutcomes == {"ok", "write fails", "rename fails"}

\* flush: the header (if the table has one) and the rows go to "<file>.tmp",
\* which is then renamed to the file.  The file after the call, and the error.
csvTable_flush(t, f, io) ==
    LET data == (IF t.header THEN <<t.cols>> ELSE <<>>) \o t.rows
    IN  CASE io = "write fails" -> [f |-> f, err |-> TRUE]
          [] io = "rename fails" -> [f |-> [f EXCEPT !.tmp = TRUE], err |-> TRUE]
          [] OTHER -> [f |-> FileOf(data), err |-> FALSE]

csvTable_Insert(t, f, cols, rowid, io) ==
    LET rec == valuesToStrings(cols, Len(t.cols))
        t2 == [t EXCEPT !.rows = Append(t.rows, rec), !.nextID = t.nextID + 1]
        fl == csvTable_flush(t2, f, io)
    IN  [t |-> t2, f |-> fl.f, rowid |-> IF rowid = 0 THEN t.nextID ELSE rowid,
         err |-> fl.err]

\* Update that takes a rowid one past the last row as a row
csvTable_Update_OffByOne(t, f, oldRowid, cols, newRowid, io) ==
    LET idx == oldRowid - 1
        t2 == IF idx < Len(t.rows)
              THEN [t EXCEPT !.rows[idx + 1] = valuesToStrings(cols, Len(t.cols))]
              ELSE [t EXCEPT !.rows = Append(t.rows, valuesToStrings(cols, Len(t.cols)))]
        fl == csvTable_flush(t2, f, io)
    IN  IF idx < 0 \/ idx > Len(t.rows) THEN [t |-> t, f |-> f, err |-> TRUE]
        ELSE [t |-> t2, f |-> fl.f, err |-> fl.err]

csvTable_Update(t, f, oldRowid, cols, newRowid, io) ==
    LET idx == oldRowid - 1
        rec == valuesToStrings(cols, Len(t.cols))
        nidx == newRowid.v - 1
        rows1 == [t.rows EXCEPT ![idx + 1] = rec]
        swap == /\ ~newRowid.nil /\ newRowid.v # 0 /\ newRowid.v # oldRowid
                /\ nidx >= 0 /\ nidx < Len(t.rows)
        rows2 == IF swap
                 THEN [rows1 EXCEPT ![idx + 1] = rows1[nidx + 1], ![nidx + 1] = rows1[idx + 1]]
                 ELSE rows1
        t2 == [t EXCEPT !.rows = rows2]
        fl == csvTable_flush(t2, f, io)
    IN  IF idx < 0 \/ idx >= Len(t.rows) THEN [t |-> t, f |-> f, err |-> TRUE]
        ELSE [t |-> t2, f |-> fl.f, err |-> fl.err]

csvTable_Delete(t, f, oldRowid, io) ==
    LET idx == oldRowid - 1
        t2 == [t EXCEPT !.rows = SubSeq(t.rows, 1, idx) \o SubSeq(t.rows, idx + 2, Len(t.rows))]
        fl == csvTable_flush(t2, f, io)
    IN  IF idx < 0 \/ idx >= Len(t.rows) THEN [t |-> t, f |-> f, err |-> TRUE]
        ELSE [t |-> t2, f |-> fl.f, err |-> fl.err]

\* The tokens of CREATE VIRTUAL TABLE ... USING csv(...), after the module,
\* database and table names.
t_file == k_filename \o <<"=">> \o DiskPath
t_noheader == k_header \o <<"=", "N", "O">>
ArgsOf(tokens) == <<(<<"c", "s", "v">>), (<<"m", "a", "i", "n">>), (<<"t">>)>> \o tokens

StoreArgs == {ArgsOf(<<t_file>>), ArgsOf(<<t_file, t_noheader>>)}

\* The files the disk may hold when the table is created: none, an empty one,
\* and files of a first line of two fields and lines of one field.
StoreFiles ==
    {NoFile, FileOf(<<>>)}
    \cup {FileOf(<<CsvCols>> \o ls) :
             ls \in SeqsUpTo({<<(<<"5">>)>>, <<(<<"5">>), (<<"6">>), (<<"7">>)>>},
                             MaxCsvRows - 1)}

\* The column values of an INSERT or UPDATE.
StoreCols == {<<VText(<<"a">>), VNull>>, <<VInt(5)>>}

StorePtrs == {[nil |-> TRUE, v |-> 0]} \cup [nil : {FALSE}, v : 0..MaxCsvRows]

\* Whether rowid names a row of the table: the rowid of a row is its position.
RowNamed(t, rowid) == rowid \in 1..Len(t.rows)

\* CREATE VIRTUAL TABLE: the file is whatever the disk holds at that moment.
CsvCreate ==
    /\ clast.op = "none"
    /\ \E args \in StoreArgs, f \in StoreFiles :
         LET res == csvModule_Create(args, f, FALSE)
         IN  /\ Len(res.t.rows) <= MaxCsvRows
             /\ cfile' = f
             /\ ctab' = IF res.ok THEN res.t ELSE ctab
             /\ clast' = [op |-> "Create", args |-> args, named |-> FALSE,
                          err |-> ~res.ok, connected |-> res.ok]
    /\ UNCHANGED <<ccur, cflt, ccall, bridgeVars, echoVars, updVars, extVars>>

\* A later Connect with the same arguments, on the file as it is now.
CsvConnect ==
    /\ clast.op # "none"
    /\ LET res == csvModule_Create(clast.args, cfile, FALSE)
       IN  /\ ctab' = IF res.ok THEN res.t ELSE ctab
           /\ clast' = [op |-> "Connect", args |-> clast.args, named |-> FALSE,
                        err |-> ~res.ok, connected |-> res.ok]
    /\ UNCHANGED <<cfile, ccur, cflt, ccall, bridgeVars, echoVars, updVars, extVars>>

\* xUpdate with a new row.  The model stops inserting at MaxCsvRows rows.
CsvInsert ==
    /\ clast.connected
    /\ Len(ctab.rows) < MaxCsvRows /\ ctab.nextID <= MaxCsvRows + 1
    /\ \E cols \in StoreCols, r \in 0..1, io \in IoOutcomes :
         LET res == csvTable_Insert(ctab, cfile, cols, r, io)
         IN  /\ ctab' = res.t
             /\ cfile' = res.f
             /\ clast' = [clast EXCEPT !.op = "Insert", !.named = FALSE,
                                       !.err = res.err]
    /\ UNCHANGED <<ccur, cflt, ccall, bridgeVars, echoVars, updVars, extVars>>

CsvUpdate ==
    /\ clast.connected
    /\ \E old \in 0..(MaxCsvRows + 1), cols \in StoreCols, p \in StorePtrs, io \in IoOutcomes :
         LET res == csvTable_Update(ctab, cfile, old, cols, p, io)
         IN  /\ ctab' = res.t
             /\ cfile' = res.f
             /\ clast' = [clast EXCEPT !.op = "Update", !.named = RowNamed(ctab, old),
                                       !.err = res.err]
    /\ UNCHANGED <<ccur, cflt, ccall, bridgeVars, echoVars, updVars, extVars>>

CsvDelete ==
    /\ clast.connected
    /\ \E old \in 0..(MaxCsvRows + 1), io \in IoOutcomes :
         LET res == csvTable_Delete(ctab, cfile, old, io)
         IN  /\ ctab' = res.t
             /\ cfile' = res.f
             /\ clast' = [clast EXCEPT !.op = "Delete", !.named = RowNamed(ctab, old),
                                       !.err = res.err]
    /\ UNCHANGED <<ccur, cflt, ccall, bridgeVars, echoVars, updVars, extVars>>

----------------------------------------------------------------------------
(* The updater fixture of module_test.go: rows of (id, val) and nextID.    *)

updaterModuleX_Create == [rows |-> <<>>, nextID |-> 1]

\* The index of the first row whose id is rowid, or 0.
updaterTableX_Find(t, rowid) ==
    LET hits == {i \in 1..Len(t.rows) : t.rows[i].id = rowid}
    IN  IF hits = {} THEN 0 ELSE CHOOSE i \in hits : \A j \in hits : i <= j

\* Insert that ignores the caller's rowid and always allocates
updaterTableX_Insert_AlwaysNext(t, cols, rowid) ==
    [t |-> [rows |-> Append(t.rows, [id |-> t.nextID, val |-> AsString(cols[1])]),
            nextID |-> t.nextID + 1],
     rowid |-> t.nextID,
     err |-> FALSE]

\* Insert(cols, rowid): the table after the call, and *rowid after the call.
updaterTableX_Insert(t, cols, rowid) ==
    LET val == AsString(cols[1])
        id == IF rowid = 0 THEN t.nextID ELSE rowid
    IN  [t |-> [rows |-> Append(t.rows, [id |-> id, val |-> val]), nextID |-> id + 1],
         rowid |-> id,
         err |-> FALSE]

\* Update that takes any non-nil newRowid as the row's new id
updaterTableX_Update_AnyNewRowid(t, oldRowid, cols, newRowid) ==
    LET hits == {i \in 1..Len(t.rows) : t.rows[i].id = oldRowid}
        i == IF hits = {} THEN 0 ELSE CHOOSE k \in hits : \A j \in hits : k <= j
    IN  IF i = 0 THEN [t |-> t, err |-> TRUE]
        ELSE [t |-> [t EXCEPT !.rows[i] = [id |-> IF newRowid.nil THEN oldRowid ELSE newRowid.v,
                                          val |-> AsString(cols[1])]],
              err |-> FALSE]

\* Delete that removes every row from the one found to the end
updaterTableX_Delete_Truncate(t, oldRowid) ==
    LET hits == {i \in 1..Len(t.rows) : t.rows[i].id = oldRowid}
        i == IF hits = {} THEN 0 ELSE CHOOSE k \in hits : \A j \in hits : k <= j
    IN  IF i = 0 THEN [t |-> t, err |-> TRUE]
        ELSE [t |-> [t EXCEPT !.rows = SubSeq(t.rows, 1, i - 1)], err |-> FALSE]

\* Update(oldRowid, cols, newRowid); newRowid is [nil, v], nil for a nil pointer.
updaterTableX_Update(t, oldRowid, cols, newRowid) ==
    LET i == updaterTableX_Find(t, oldRowid)
        val == AsString(cols[1])
        id == IF ~newRowid.nil /\ newRowid.v # 0 /\ newRowid.v # oldRowid
              THEN newRowid.v ELSE oldRowid
    IN  IF i = 0 THEN [t |-> t, err |-> TRUE]
        ELSE [t |-> [t EXCEPT !.rows[i] = [id |-> id, val |-> val]], err |-> FALSE]

updaterTableX_Delete(t, oldRowid) ==
    LET i == updaterTableX_Find(t, oldRowid)
    IN  IF i = 0 THEN [t |-> t, err |-> TRUE]
        ELSE [t |-> [t EXCEPT !.rows = SubSeq(t.rows, 1, i - 1)
                                          \o SubSeq(t.rows, i + 1, Len(t.rows))],
              err |-> FALSE]

\* Column values of the statements: two texts and a value that is no string.
UpdVals == {VText(<<"A">>), VText(<<"B">>), VInt(7)}

\* A *int64 argument: nil, or a pointer to one of the rowids.
RowidPtrs == {[nil |-> TRUE, v |-> 0]} \cup [nil : {FALSE}, v : 0..MaxRowid]

RowIds(t) == {t.rows[i].id : i \in 1..Len(t.rows)}

\* The last call on the table: its arguments and what it returned.
NoUpdCall ==
    [op |-> "none", cols |-> <<>>, rowidIn |-> 0, rowidOut |-> 0, old |-> 0, err |-> FALSE]

UpdIdle ==
    /\ utab = updaterModuleX_Create
    /\ uhist = [held |-> {}, lastAuto |-> 0]
    /\ ulast = NoUpdCall

\* xUpdate with a new row.  The model stops allocating at MaxRowid.
UpdInsert ==
    /\ Len(utab.rows) < MaxUpdRows
    /\ \E v \in UpdVals, r \in 0..MaxRowid :
         LET res == updaterTableX_Insert(utab, <<v>>, r)
         IN  /\ r = 0 => utab.nextID <= MaxRowid
             /\ utab' = res.t
             /\ uhist' = [held |-> uhist.held \cup RowIds(res.t),
                          lastAuto |-> IF r = 0 THEN res.rowid ELSE uhist.lastAuto]
             /\ ulast' = [op |-> "Insert", cols |-> <<v>>, rowidIn |-> r,
                          rowidOut |-> res.rowid, old |-> 0, err |-> res.err]
    /\ UNCHANGED <<bridgeVars, echoVars, csvVars, extVars>>

\* xUpdate of a row.  ulast keeps the arguments the call read: a call that finds
\* no row reads oldRowid only.
UpdUpdate ==
    /\ \E old \in 1..MaxRowid, v \in UpdVals, p \in RowidPtrs :
         LET res == updaterTableX_Update(utab, old, <<v>>, p)
         IN  /\ utab' = res.t
             /\ uhist' = [uhist EXCEPT !.held = uhist.held \cup RowIds(res.t)]
             /\ ulast' = [op |-> "Update", cols |-> IF res.err THEN <<>> ELSE <<v>>,
                          rowidIn |-> IF res.err \/ p.nil THEN 0 ELSE p.v,
                          rowidOut |-> 0, old |-> old, err |-> res.err]
    /\ UNCHANGED <<bridgeVars, echoVars, csvVars, extVars>>

UpdDelete ==
    /\ \E old \in 1..MaxRowid :
         LET res == updaterTableX_Delete(utab, old)
         IN  /\ utab' = res.t
             /\ UNCHANGED uhist
             /\ ulast' = [op |-> "Delete", cols |-> <<>>, rowidIn |-> 0, rowidOut |-> 0,
                          old |-> old, err |-> res.err]
    /\ UNCHANGED <<bridgeVars, echoVars, csvVars, extVars>>

----------------------------------------------------------------------------
(* BestIndex of the other examples, and every provider's BestIndex on      *)
(* every constraint set.                                                   *)

matchTable_Hit(c) == c.Usable /\ c.Column = 0 /\ c.Op = "MATCH"

matchTable_BestIndex(inf) ==
    LET i == FirstHit({k \in 1..Len(inf.Constraints) : matchTable_Hit(inf.Constraints[k])})
    IN  IF i = 0 THEN [inf EXCEPT !.IdxNum = Wide(0)]
        ELSE [inf EXCEPT !.Constraints[i].ArgIndex = 0, !.Constraints[i].Omit = TRUE,
                         !.IdxNum = Wide(20)]

matchAll == <<s_alpha, s_beta, s_alpine, <<"m", "a", "t", "c", "h">>, <<"a", "t", "l", "a", "s">>>>

matchTable_Open == [open |-> TRUE, rows |-> matchAll, pos |-> 0]

\* strings.Contains
Contains(str, sub) ==
    \E k \in 0..(Len(str) - Len(sub)) : SubSeq(str, k + 1, k + Len(sub)) = sub

matchCursor_Filter(c, idxNum, idxStr, vals) ==
    LET term == ToLower(AsString(vals[1]))
        Has(r) == Contains(ToLower(r), term)
    IN  [c EXCEPT !.pos = 0,
                  !.rows = IF idxNum = 20 /\ Len(vals) = 1 THEN SelectSeq(matchAll, Has)
                           ELSE matchAll]

reTable_Hit(c) == c.Usable /\ c.Column = 0 /\ c.Op = "REGEXP"

reTable_BestIndex(omit, inf) ==
    LET i == FirstHit({k \in 1..Len(inf.Constraints) : reTable_Hit(inf.Constraints[k])})
    IN  IF i = 0 THEN inf
        ELSE [inf EXCEPT !.Constraints[i].ArgIndex = 0, !.Constraints[i].Omit = omit,
                         !.IdxNum = Wide(10)]

PlanModules ==
    {"argtest", "omit_off", "omit_on", "echo", "csv", "match", "re", "re_omit"}

Plan_BestIndex(m, inf) ==
    CASE m = "argtest" -> argIndexTable_BestIndex(inf)
      [] m = "omit_off" -> omitTableX_BestIndex(FALSE, inf)
      [] m = "omit_on" -> omitTableX_BestIndex(TRUE, inf)
      [] m = "echo" -> echoTable_BestIndex(inf)
      [] m = "csv" -> csvTable_BestIndex(LoadedTable(<<>>), inf)
      [] m = "match" -> matchTable_BestIndex(inf)
      [] m = "re" -> reTable_BestIndex(FALSE, inf)
      [] m = "re_omit" -> reTable_BestIndex(TRUE, inf)

\* Constraints the engine may offer: on the rowid (-1), on a declared column, or
\* on a column past the two of the csv table.
PlanConstraints ==
    [column : {-1, 0, 2}, op : {"EQ", "LIKE", "MATCH", "REGEXP"}, usable : BOOLEAN,
     rhs : {VNull}]

PlanBestIndex ==
    /\ pc = "idle"
    /\ \E m \in PlanModules, cs \in SeqsUpTo(PlanConstraints, MaxCons) :
         /\ module' = m
         /\ cons' = cs
         /\ info' = Plan_BestIndex(m, NewIndexInfo(cs))
    /\ pc' = "planned"
    /\ UNCHANGED <<eng, cur, fcall, out, err, echoVars, csvVars, updVars, extVars>>

PlanDone ==
    /\ pc = "planned"
    /\ pc' = "idle" /\ module' = "dummy" /\ cons' = <<>> /\ info' = NewIndexInfo(<<>>)
    /\ UNCHANGED <<eng, cur, fcall, out, err, echoVars, csvVars, updVars, extVars>>

----------------------------------------------------------------------------
(* Create and Connect of the providers: what a call declares and returns.  *)

NoResult ==
    [panic |-> FALSE, ok |-> FALSE, t |-> NoTable, declares |-> 0, read |-> NoStr,
     err |-> "none"]

\* A call that made one ctx.Declare call and returns its error or the table.
Declared(declErr) ==
    IF declErr THEN [NoResult EXCEPT !.declares = 1, !.err = "declare"]
    ELSE [NoResult EXCEPT !.declares = 1, !.ok = TRUE]

dummyModule_Create(args, declErr) ==
    IF Len(args) >= 3 THEN Declared(declErr) ELSE [NoResult EXCEPT !.ok = TRUE]

dummyModule_Connect(args, declErr) ==
    IF Len(args) >= 3 THEN Declared(declErr) ELSE [NoResult EXCEPT !.ok = TRUE]

echoModule_Create(args, declErr) ==
    IF Len(args) < 3 THEN [NoResult EXCEPT !.err = "echo: missing table name in args"]
    ELSE Declared(declErr)

echoModule_Connect(args, declErr) ==
    IF Len(args) < 3 THEN [NoResult EXCEPT !.err = "echo: missing table name in args"]
    ELSE Declared(declErr)

\* updaterModuleX.Create as a call; Connect calls it.
updaterModuleX_Connect(args, declErr) ==
    IF Len(args) < 3 THEN [NoResult EXCEPT !.err = "upd: missing table name"]
    ELSE Declared(declErr)

Providers == {"dummy", "echo", "csv", "upd"}

Provider_Create(m, op, args, f, declErr) ==
    CASE m = "dummy" -> IF op = "Create" THEN dummyModule_Create(args, declErr)
                        ELSE dummyModule_Connect(args, declErr)
      [] m = "echo" -> IF op = "Create" THEN echoModule_Create(args, declErr)
                       ELSE echoModule_Connect(args, declErr)
      [] m = "csv" -> csvModule_Create(args, f, declErr)
      [] OTHER -> updaterModuleX_Connect(args, declErr)

\* The tokens a CREATE VIRTUAL TABLE statement may give the module.
t_empty == k_filename \o <<"=">>
t_quoted == k_filename \o <<"=", "'">> \o DiskPath \o <<"'">>
t_other == k_filename \o <<"=", "g">>
t_bogus == <<"x", "=">> \o DiskPath

Tokens == {t_file, t_empty, t_quoted, t_other, k_filename, t_bogus, t_noheader}

\* Argument lists: the engine's (module, database and table name, then at most
\* MaxTokens tokens), and the shorter ones only a direct caller can pass.
CreateArgs ==
    {ArgsOf(ts) : ts \in SeqsUpTo(Tokens, MaxTokens)}
    \cup {SubSeq(ArgsOf(<<>>), 1, n) : n \in 0..2}

NoModCall ==
    [op |-> "none", module |-> "none", args |-> <<>>, declErr |-> FALSE,
     res |-> NoResult]

\* A Create or Connect call, with ctx.Declare succeeding or failing.
ModCreate ==
    /\ mcall.op = "none"
    /\ \E m \in Providers, op \in {"Create", "Connect"}, args \in CreateArgs,
          f \in {NoFile, FileOf(<<CsvCols>>)}, declErr \in BOOLEAN :
         LET res == Provider_Create(m, op, args, f, declErr)
         IN  mcall' = [op |-> op, module |-> m, args |-> args, declErr |-> declErr,
                       res |-> [res EXCEPT !.t = NoTable]]
    /\ reg' = reg /\ pair' = pair /\ UNCHANGED lateVars
    /\ UNCHANGED <<bridgeVars, echoVars, csvVars, updVars>>

\* The engine has taken the call's result.
ModReturn ==
    /\ mcall.op # "none"
    /\ mcall' = NoModCall
    /\ reg' = reg /\ pair' = pair /\ UNCHANGED lateVars
    /\ UNCHANGED <<bridgeVars, echoVars, csvVars, updVars>>

----------------------------------------------------------------------------
(* The module registry: vtab.RegisterModule and the lookup a CREATE VIRTUAL *)
(* TABLE ... USING name statement makes.  The registry is one mapping for   *)
(* the process; connections are opened by sql.Open.                         *)

RegNames == {"argtest", "omit_off"}
RegModules == {"argIndexModule", "omitModuleX"}
NilModule == "nil"
Unbound == "unbound"

NoRegistry ==
    [bound |-> [n \in RegNames |-> Unbound],   \* the mapping
     dbs |-> 0,                                \* connections opened so far
     first |-> [n \in RegNames |-> Unbound],   \* history: the module Register accepted for a name
     since |-> [n \in RegNames |-> 0],         \* history: connections open when it was accepted
     op |-> "none", db |-> 0, name |-> "", module |-> NilModule,
     err |-> FALSE, got |-> Unbound]

\* Register binding the name again, over the earlier module
RegisterModule_Overwrite(bound, name, m) ==
    IF m = NilModule
    THEN [err |-> TRUE, bound |-> bound]
    ELSE [err |-> FALSE, bound |-> [bound EXCEPT ![name] = m]]

\* vtab.RegisterModule(db, name, m)
RegisterModule(bound, name, m) ==
    IF m = NilModule \/ bound[name] # Unbound
    THEN [err |-> TRUE, bound |-> bound]
    ELSE [err |-> FALSE, bound |-> [bound EXCEPT ![name] = m]]

\* The lookup of a module name: Unbound is "no such module".
Resolve(bound, name) == bound[name]

RegRegister ==
    /\ \E name \in RegNames, m \in RegModules \cup {NilModule} :
         LET r == RegisterModule(reg.bound, name, m)
             fresh == ~r.err /\ reg.first[name] = Unbound
         IN  reg' = [reg EXCEPT !.bound = r.bound,
                                !.first[name] = IF fresh THEN m ELSE @,
                                !.since[name] = IF fresh THEN reg.dbs ELSE @,
                                !.op = "Register", !.db = 0, !.name = name,
                                !.module = m, !.err = r.err, !.got = Unbound]
    /\ mcall' = mcall /\ pair' = pair /\ UNCHANGED lateVars
    /\ UNCHANGED <<bridgeVars, echoVars, csvVars, updVars>>

\* sql.Open
RegOpen ==
    /\ reg.dbs < MaxCons
    /\ reg' = [reg EXCEPT !.dbs = @ + 1, !.op = "Open", !.db = reg.dbs + 1, !.name = "",
                          !.module = NilModule, !.err = FALSE, !.got = Unbound]
    /\ mcall' = mcall /\ pair' = pair /\ UNCHANGED lateVars
    /\ UNCHANGED <<bridgeVars, echoVars, csvVars, updVars>>

\* db.Exec(`CREATE VIRTUAL TABLE t USING name(...)`) on an open connection
RegCreateVTab ==
    /\ \E db \in 1..reg.dbs, name \in RegNames :
         LET got == Resolve(reg.bound, name)
         IN  reg' = [reg EXCEPT !.op = "CreateVTab", !.db = db, !.name = name,
                                !.module = NilModule, !.err = (got = Unbound),
                                !.got = got]
    /\ mcall' = mcall /\ pair' = pair /\ UNCHANGED lateVars
    /\ UNCHANGED <<bridgeVars, echoVars, csvVars, updVars>>

----------------------------------------------------------------------------
(* Two cursors on one table.  A cursor is an object on the heap; the engine *)
(* holds the address Open returned.  objs is the heap, h the two addresses  *)
(* (0: no cursor), trows the rows of the table the cursors were opened on.  *)
(* Every callback is reached through the dispatcher, which hands the engine *)
(* a result code.                                                           *)

updaterTableX_Open == [open |-> TRUE, rows |-> <<>>, pos |-> 0]

updaterCursorX_Filter(c) == [c EXCEPT !.pos = 0]

updaterCursorX_Next(c, rows) == IF c.pos < Len(rows) THEN [c EXCEPT !.pos = c.pos + 1] ELSE c

updaterCursorX_Column(c, rows, col) ==
    IF c.pos >= Len(rows) THEN VNull
    ELSE IF col = 0 THEN VText(rows[c.pos + 1].val)
    ELSE VNull

\* c.t.rows[c.pos].id panics when pos is not the index of a row.
updaterCursorX_Rowid(c, rows) ==
    IF c.pos < 0 \/ c.pos >= Len(rows) THEN Panic ELSE VInt(rows[c.pos + 1].id)

omitTableX_Open == [open |-> TRUE, rows |-> <<>>, pos |-> 0]

omitCursorX_Rowid(c) ==
    IF c.pos < 0 \/ c.pos >= Len(c.rows) THEN Panic ELSE VInt(c.rows[c.pos + 1].rowid)

dummyTable_Open == [open |-> TRUE, rows |-> <<>>, pos |-> 0]

dummyCursor_Rowid(c) ==
    IF c.pos < 0 \/ c.pos >= Len(c.rows) THEN VInt(0) ELSE VInt(c.rows[c.pos + 1].rowid)

PairKinds == {"csv", "upd", "echo", "omit", "dummy"}

\* The table after n rows were inserted with rowid 0.
RECURSIVE UpdTableOf(_)
UpdTableOf(n) ==
    IF n = 0 THEN updaterModuleX_Create
    ELSE updaterTableX_Insert(UpdTableOf(n - 1), <<VText(<<"A">>)>>, 0).t

\* The csv table of a file of n records.
CsvTableOf(n) ==
    LoadedTable([i \in 1..n |-> IF i % 2 = 1 THEN <<(<<"5">>), s_nil>>
                                             ELSE <<s_nil, (<<"5">>)>>])

PairTables(kind) ==
    CASE kind = "csv" -> {CsvTableOf(n).rows : n \in 0..MaxCsvRows}
      [] kind = "upd" -> {UpdTableOf(n).rows : n \in 0..MaxUpdRows}
      [] OTHER -> {<<>>}

\* Filter calls: a full scan, the equality plans and the LIKE plan.
PairPlans ==
    {[idxNum |-> 0, idxStr |-> NoStr, vals |-> <<>>],
     [idxNum |-> 1, idxStr |-> <<"0">>, vals |-> <<VText(<<"5">>)>>],
     [idxNum |-> 1, idxStr |-> NoStr, vals |-> <<VText(s_alpha)>>],
     [idxNum |-> 2, idxStr |-> NoStr, vals |-> <<VText(<<"a", "l", "%">>)>>]}

Table_Open(kind, rows) ==
    CASE kind = "csv" -> csvTable_Open(LoadedTable(rows))
      [] kind = "upd" -> updaterTableX_Open
      [] kind = "echo" -> echoTable_Open
      [] kind = "dummy" -> dummyTable_Open
      [] OTHER -> omitTableX_Open

Cursor_Filter(kind, c, rows, plan) ==
    CASE kind = "csv" ->
           csvCursor_Filter(c, LoadedTable(rows), plan.idxNum, plan.idxStr, plan.vals)
      [] kind = "upd" -> updaterCursorX_Filter(c)
      [] kind = "echo" -> echoCursor_Filter(c, plan.idxNum, plan.idxStr, plan.vals)
      [] kind = "dummy" ->
           LET r == dummyCursor_Filter(c, plan.idxNum, plan.idxStr, plan.vals)
           IN  [c EXCEPT !.rows = r.rows, !.pos = r.pos]
      [] OTHER ->
           LET r == omitCursorX_Filter(c, plan.idxNum, plan.idxStr, plan.vals)
           IN  [c EXCEPT !.rows = r.rows, !.pos = r.pos]

Cursor_Step(kind, c, rows) ==
    CASE kind = "csv" -> csvCursor_Next(c)
      [] kind = "upd" -> updaterCursorX_Next(c, rows)
      [] kind = "echo" -> echoCursor_Next(c)
      [] OTHER -> Cursor_Next(c)

Cursor_Column(kind, c, rows, col) ==
    CASE kind = "csv" -> csvCursor_Column(c, LoadedTable(rows), col)
      [] kind = "upd" -> updaterCursorX_Column(c, rows, col)
      [] kind = "echo" -> echoCursor_Column(c, col)
      [] kind = "dummy" -> dummyCursor_Column(c, col)
      [] OTHER -> omitCursorX_Column(c, col)

Cursor_Rowid(kind, c, rows) ==
    CASE kind = "csv" -> VInt(csvCursor_Rowid(c))
      [] kind = "upd" -> updaterCursorX_Rowid(c, rows)
      [] kind = "echo" -> VInt(echoCursor_Rowid(c))
      [] kind = "dummy" -> dummyCursor_Rowid(c)
      [] OTHER -> omitCursorX_Rowid(c)

\* &T{...} handing out the address of a cursor that is still in use
New_Reuse(objs, h, obj) ==
    LET used == {h[i] : i \in 1..2} \ {0}
        a == IF used = {} THEN 1 ELSE CHOOSE x \in used : TRUE
    IN  [objs |-> [objs EXCEPT ![a] = obj], addr |-> a]

\* &T{...}: a new object, at an address no live cursor has.
New(objs, h, obj) ==
    LET a == CHOOSE x \in 1..2 : \A i \in 1..2 : h[i] # x
    IN  [objs |-> [objs EXCEPT ![a] = obj], addr |-> a]

\* A dispatcher that lets the panic of a callback unwind into the engine
Dispatch_NoRecover(ret) == IF ret = Panic THEN "crash" ELSE "ok"

\* The dispatcher's boundary around a callback: a panic in the application's
\* code becomes an error of the statement.
Dispatch(ret) == IF ret = Panic THEN "error" ELSE "ok"

NoPlan == [idxNum |-> 0, idxStr |-> NoStr, vals |-> <<>>]
NoPrev == [pos |-> 0, n |-> 0]

NoPair ==
    [kind |-> "none", trows |-> <<>>, objs |-> <<ClosedCursor, ClosedCursor>>,
     h |-> <<0, 0>>, op |-> "none", who |-> 0, panic |-> FALSE, rc |-> "ok",
     plan |-> NoPlan,    \* the arguments of the call, when it is a Filter
     prev |-> NoPrev]    \* the cursor's position and window length before that Filter

\* The rows a cursor walks: its own, or, for updaterCursorX, the table's.
Window(p, i) == IF p.kind = "upd" THEN p.trows ELSE p.objs[p.h[i]].rows

\* CREATE VIRTUAL TABLE: the module's table, with the rows it has.
PairCreate ==
    /\ pair.kind = "none"
    /\ \E kind \in PairKinds : \E rows \in PairTables(kind) :
         pair' = [NoPair EXCEPT !.kind = kind, !.trows = rows, !.op = "Create"]
    /\ mcall' = mcall /\ reg' = reg /\ UNCHANGED lateVars
    /\ UNCHANGED <<bridgeVars, echoVars, csvVars, updVars>>

PairOpen ==
    /\ pair.kind # "none" /\ pair.rc # "crash"
    /\ \E i \in 1..2 :
         /\ pair.h[i] = 0
         /\ LET r == New(pair.objs, pair.h, Table_Open(pair.kind, pair.trows))
            IN  pair' = [pair EXCEPT !.objs = r.objs, !.h[i] = r.addr, !.op = "Open", !.plan = NoPlan, !.prev = NoPrev,
                                     !.who = i, !.panic = FALSE, !.rc = "ok"]
    /\ mcall' = mcall /\ reg' = reg /\ UNCHANGED lateVars
    /\ UNCHANGED <<bridgeVars, echoVars, csvVars, updVars>>

PairFilter ==
    /\ pair.rc # "crash"
    /\ \E i \in 1..2, plan \in PairPlans :
         /\ pair.h[i] # 0
         /\ pair' = [pair EXCEPT !.objs[pair.h[i]] = Cursor_Filter(pair.kind, @, pair.trows, plan),
                                 !.op = "Filter", !.who = i, !.panic = FALSE, !.rc = "ok",
                                 !.plan = plan,
                                 !.prev = [pos |-> pair.objs[pair.h[i]].pos,
                                           n |-> Len(Window(pair, i))]]
    /\ mcall' = mcall /\ reg' = reg /\ UNCHANGED lateVars
    /\ UNCHANGED <<bridgeVars, echoVars, csvVars, updVars>>

PairNext ==
    /\ pair.rc # "crash"
    /\ \E i \in 1..2 :
         /\ pair.h[i] # 0
         /\ pair' = [pair EXCEPT !.objs[pair.h[i]] = Cursor_Step(pair.kind, @, pair.trows),
                                 !.op = "Next", !.plan = NoPlan, !.prev = NoPrev, !.who = i, !.panic = FALSE, !.rc = "ok"]
    /\ mcall' = mcall /\ reg' = reg /\ UNCHANGED lateVars
    /\ UNCHANGED <<bridgeVars, echoVars, csvVars, updVars>>

\* xColumn of column 0
PairColumn ==
    /\ pair.rc # "crash"
    /\ \E i \in 1..2 :
         /\ pair.h[i] # 0
         /\ LET ret == Cursor_Column(pair.kind, pair.objs[pair.h[i]], pair.trows, 0)
            IN  pair' = [pair EXCEPT !.op = "Column", !.plan = NoPlan, !.prev = NoPrev, !.who = i, !.panic = (ret = Panic),
                                     !.rc = Dispatch(ret)]
    /\ mcall' = mcall /\ reg' = reg /\ UNCHANGED lateVars
    /\ UNCHANGED <<bridgeVars, echoVars, csvVars, updVars>>

PairRowid ==
    /\ pair.rc # "crash"
    /\ \E i \in 1..2 :
         /\ pair.h[i] # 0
         /\ LET ret == Cursor_Rowid(pair.kind, pair.objs[pair.h[i]], pair.trows)
            IN  pair' = [pair EXCEPT !.op = "Rowid", !.plan = NoPlan, !.prev = NoPrev, !.who = i, !.panic = (ret = Panic),
                                     !.rc = Dispatch(ret)]
    /\ mcall' = mcall /\ reg' = reg /\ UNCHANGED lateVars
    /\ UNCHANGED <<bridgeVars, echoVars, csvVars, updVars>>

\* Close returns nil and changes nothing; the engine drops the cursor, and the
\* object is garbage once no cursor has its address.
PairClose ==
    /\ pair.rc # "crash"
    /\ \E i \in 1..2 :
         /\ pair.h[i] # 0
         /\ LET a == pair.h[i]
                h2 == [pair.h EXCEPT ![i] = 0]
            IN  pair' = [pair EXCEPT !.h = h2,
                                     !.objs[a] = IF a \in {h2[1], h2[2]} THEN @
                                                 ELSE ClosedCursor,
                                     !.op = "Close", !.plan = NoPlan, !.prev = NoPrev, !.who = i, !.panic = FALSE,
                                     !.rc = "ok"]
    /\ mcall' = mcall /\ reg' = reg /\ UNCHANGED lateVars
    /\ UNCHANGED <<bridgeVars, echoVars, csvVars, updVars>>

----------------------------------------------------------------------------
(* Two threads inside updaterTableX.Insert on one table, each with the     *)
(* rowid 0.  The method takes no lock: its reads and writes of t.nextID    *)
(* and t.rows are separate steps that interleave.  A thread is             *)
(* [pc, id, rows]: its position, its local id and the slice it read.       *)

NoThread == [pc |-> "idle", id |-> 0, rows |-> <<>>]
NoRace == [op |-> "none", t |-> updaterModuleX_Create, first |-> 0, th |-> <<NoThread, NoThread>>]

raceFrame == <<earlyVars, push, rx, hook, flush, st, walk>>

\* Both threads enter Insert on a table of n rows.
RaceStart ==
    /\ race.op = "none"
    /\ \E n \in 0..MaxUpdRows :
         race' = [op |-> "Insert", t |-> UpdTableOf(n), first |-> UpdTableOf(n).nextID,
                  th |-> <<[NoThread EXCEPT !.pc = "entered"],
                           [NoThread EXCEPT !.pc = "entered"]>>]
    /\ UNCHANGED raceFrame

\* id := *rowid; if id == 0 { id = t.nextID }
RaceReadNextID ==
    /\ \E i \in 1..2 :
         /\ race.th[i].pc = "entered"
         /\ race' = [race EXCEPT !.th[i].pc = "hasId", !.th[i].id = race.t.nextID]
    /\ UNCHANGED raceFrame

\* t.nextID = id + 1
RaceWriteNextID ==
    /\ \E i \in 1..2 :
         /\ race.th[i].pc = "hasId"
         /\ race' = [race EXCEPT !.th[i].pc = "wroteId", !.t.nextID = race.th[i].id + 1]
    /\ UNCHANGED raceFrame

\* append reads the slice t.rows ...
RaceReadRows ==
    /\ \E i \in 1..2 :
         /\ race.th[i].pc = "wroteId"
         /\ race' = [race EXCEPT !.th[i].pc = "hasRows", !.th[i].rows = race.t.rows]
    /\ UNCHANGED raceFrame

\* ... and t.rows = the slice read, with the new row after it; *rowid = id.
RaceWriteRows ==
    /\ \E i \in 1..2 :
         /\ race.th[i].pc = "hasRows"
         /\ race' = [race EXCEPT
                       !.th[i].pc = "done",
                       !.t.rows = Append(race.th[i].rows,
                                         [id |-> race.th[i].id,
                                          val |-> IF i = 1 THEN <<"A">> ELSE <<"B">>])]
    /\ UNCHANGED raceFrame

----------------------------------------------------------------------------
(* The re example: SELECT val FROM t WHERE val REGEXP p on a table created  *)
(* with omit=true and on one created without it.  Patterns are literals     *)
(* with an optional leading "^"; "(" alone does not compile.                *)

reAll == <<s_alpha, s_beta, s_alpine, <<"r", "e", "g", "e", "x">>>>

reTable_Open == [open |-> TRUE, rows |-> reAll, pos |-> 0]

\* regexp.Compile: whether the pattern compiles.
Compile(pat) == \A k \in 1..Len(pat) : pat[k] # "("

\* regexp.MatchString of a pattern that compiles.
MatchString(pat, str) ==
    IF Len(pat) > 0 /\ pat[1] = "^" THEN HasPrefix(str, Tail(pat)) ELSE Contains(str, pat)

reCursor_Filter(c, idxNum, idxStr, vals) ==
    LET pat == AsString(vals[1])
        Has(r) == MatchString(pat, r)
    IN  [c EXCEPT !.pos = 0,
                  !.rows = IF idxNum = 10 /\ Len(vals) = 1
                           THEN (IF ~Compile(pat) THEN <<>> ELSE SelectSeq(reAll, Has))
                           ELSE reAll]

reCursor_Column(c, col) ==
    IF col = 0 /\ c.pos < Len(c.rows) THEN VText(c.rows[c.pos + 1]) ELSE VNull

\* The regexp(pattern, value) function the example registers: [err, v].
regexpUDF(args) ==
    IF Len(args) # 2 THEN [err |-> FALSE, v |-> 0]
    ELSE LET pat == AsString(args[1])
             val == AsString(args[2])
         IN  IF pat = <<>> THEN [err |-> FALSE, v |-> 0]
             ELSE IF ~Compile(pat) THEN [err |-> TRUE, v |-> 0]
             ELSE [err |-> FALSE, v |-> IF MatchString(pat, val) THEN 1 ELSE 0]

\* Patterns: anchored and not, matching no row, empty, not compiling, not text.
RxPatterns ==
    {VText(<<"^", "a", "l">>), VText(<<"e">>), VText(<<"z">>), VText(<<>>), VText(<<"(">>),
     VText(<<"^">>), VInt(5), VNull}

\* The statement's one constraint as the engine holds it.
RxCons(p) == <<[column |-> 0, op |-> "REGEXP", usable |-> TRUE, rhs |-> p]>>

\* The statement prepared on a table: BestIndex has run.
RxRun(omit, p) ==
    [omit |-> omit, pc |-> "planned",
     e |-> ToEngine(reTable_BestIndex(omit, NewIndexInfo(RxCons(p)))),
     cur |-> ClosedCursor, out |-> <<>>, err |-> FALSE]

NoRx == [op |-> "none", pat |-> VNull, run |-> <<>>]

rxFrame == <<earlyVars, race, push, hook, flush, st, walk>>

\* The same query is prepared on vt_re_omit (run 1) and on vt_re (run 2).
RxStart ==
    /\ rx.op = "none"
    /\ \E p \in RxPatterns :
         rx' = [op |-> "query", pat |-> p, run |-> <<RxRun(TRUE, p), RxRun(FALSE, p)>>]
    /\ UNCHANGED rxFrame

\* xOpen and xFilter with the plan's tag and argv.
RxFilter ==
    /\ rx.op = "query"
    /\ \E i \in 1..2 :
         /\ rx.run[i].pc = "planned"
         /\ LET e == rx.run[i].e
            IN  rx' = [rx EXCEPT
                         !.run[i].pc = "scan",
                         !.run[i].cur = reCursor_Filter(reTable_Open, e.idxNum, e.idxStr,
                                                        Argv(RxCons(rx.pat), e))]
    /\ UNCHANGED rxFrame

\* One turn of the scan: xEof, xColumn, the engine's re-check of the REGEXP
\* term with the registered function unless the plan omitted it, and xNext.
RxStep ==
    /\ rx.op = "query"
    /\ \E i \in 1..2 :
         /\ rx.run[i].pc = "scan"
         /\ LET r == rx.run[i]
                v == reCursor_Column(r.cur, 0)
                chk == IF Rechecked(r.e, 1) THEN regexpUDF(<<rx.pat, v>>)
                       ELSE [err |-> FALSE, v |-> 1]
            IN  rx' = [rx EXCEPT
                         !.run[i] =
                           IF Cursor_Eof(r.cur) THEN [r EXCEPT !.pc = "done"]
                           ELSE IF chk.err THEN [r EXCEPT !.pc = "failed", !.err = TRUE]
                           ELSE [r EXCEPT !.out = IF chk.v = 1 THEN Append(r.out, v) ELSE r.out,
                                          !.cur = Cursor_Next(r.cur)]]
    /\ UNCHANGED rxFrame

\* Both statements are over.
RxFinish ==
    /\ rx.op = "query"
    /\ \A i \in 1..2 : rx.run[i].pc \in {"done", "failed"}
    /\ rx' = NoRx
    /\ UNCHANGED rxFrame

----------------------------------------------------------------------------
(* A connection with a pre-update hook, and single-row INSERT, UPDATE and   *)
(* DELETE statements on one row of an ordinary table.  The hook is the      *)
(* callback of TestPreUpdateHook: it counts its calls by operation and      *)
(* keeps the values it was given.                                           *)

NoRow == <<>>

\* The values of the statements: the row the test inserts, the row it updates
\* to, and a third one.
HookRows == {<<42, "Test">>, <<43, "Test update">>, <<44, "x">>}

NoHook ==
    [row |-> NoRow,          \* the table's row
     stmts |-> 0,            \* statements executed
     changes |-> 0,          \* row changes the engine made
     insertCount |-> 0, updateCount |-> 0, deleteCount |-> 0,
     op |-> "none",          \* data.Op of the hook's last call
     old |-> NoRow,          \* what data.Old gave in that call
     new |-> NoRow,          \* what data.New gave in that call
     prevNew |-> NoRow]      \* what data.New gave in the call before it

\* What the engine hands the hook when it is called after the change
PreUpdateData_AfterChange(op, row, v) == [Op |-> op, Old |-> v, New |-> v]

\* What the engine hands the hook before it changes the row.
PreUpdateData(op, row, v) == [Op |-> op, Old |-> row, New |-> v]

\* The callback registered with RegisterPreUpdateHook.
preUpdateHook(h, data) ==
    CASE data.Op = "SQLITE_INSERT" ->
           [h EXCEPT !.insertCount = @ + 1, !.op = data.Op, !.old = NoRow,
                     !.new = data.New, !.prevNew = h.new]
      [] data.Op = "SQLITE_UPDATE" ->
           [h EXCEPT !.updateCount = @ + 1, !.op = data.Op, !.old = data.Old,
                     !.new = data.New, !.prevNew = h.new]
      [] data.Op = "SQLITE_DELETE" ->
           [h EXCEPT !.deleteCount = @ + 1, !.op = data.Op, !.old = data.Old,
                     !.new = NoRow, !.prevNew = h.new]
      [] OTHER -> h

hookFrame == <<earlyVars, race, push, rx, flush, st, walk>>

\* INSERT INTO t VALUES(...)
HookInsert ==
    /\ hook.stmts < MaxStmts /\ hook.row = NoRow
    /\ \E v \in HookRows :
         hook' = [preUpdateHook(hook, PreUpdateData("SQLITE_INSERT", hook.row, v))
                    EXCEPT !.row = v, !.stmts = @ + 1, !.changes = @ + 1]
    /\ UNCHANGED hookFrame

\* UPDATE t SET ...
HookUpdate ==
    /\ hook.stmts < MaxStmts /\ hook.row # NoRow
    /\ \E v \in HookRows :
         hook' = [preUpdateHook(hook, PreUpdateData("SQLITE_UPDATE", hook.row, v))
                    EXCEPT !.row = v, !.stmts = @ + 1, !.changes = @ + 1]
    /\ UNCHANGED hookFrame

\* DELETE FROM t
HookDelete ==
    /\ hook.stmts < MaxStmts /\ hook.row # NoRow
    /\ hook' = [preUpdateHook(hook, PreUpdateData("SQLITE_DELETE", hook.row, NoRow))
                  EXCEPT !.row = NoRow, !.stmts = @ + 1, !.changes = @ + 1]
    /\ UNCHANGED hookFrame

\* UPDATE or DELETE on the empty table: no row changes, the hook is not called.
HookNoRow ==
    /\ hook.stmts < MaxStmts /\ hook.row = NoRow
    /\ hook' = [hook EXCEPT !.stmts = @ + 1]
    /\ UNCHANGED hookFrame

----------------------------------------------------------------------------
(* The WHERE clause of a query on a virtual table, as it reaches BestIndex. *)

SqlOps == {"=", "IS NULL", "LIKE", "GLOB"}

\* An engine that hands LIKE and GLOB over as plain function constraints
OpOf_Function(sqlop) ==
    CASE sqlop = "=" -> "EQ"
      [] sqlop = "IS NULL" -> "ISNULL"
      [] OTHER -> "FUNCTION"

\* The ConstraintOp the engine tags a predicate with.
OpOf(sqlop) ==
    CASE sqlop = "=" -> "EQ"
      [] sqlop = "IS NULL" -> "ISNULL"
      [] sqlop = "LIKE" -> "LIKE"
      [] OTHER -> "GLOB"

\* The draft constraints of a WHERE clause: one per predicate, usable when its
\* operand is known at plan time.
Pushdown(where) ==
    [i \in 1..Len(where) |->
        [column |-> where[i].column, op |-> OpOf(where[i].op), usable |-> where[i].known]]

\* opsTableX.BestIndex: the value it leaves in seenOpsOps.
opsTableX_BestIndex(inf) ==
    LET Usable(c) == c.Usable
        seen == SelectSeq(inf.Constraints, Usable)
    IN  [i \in 1..Len(seen) |-> seen[i].Op]

PushTables == {"ops", "dummy"}

\* ovt has the one column c1; the dummy table of the tests has two.
PushColumns(vt) == IF vt = "ops" THEN {0} ELSE {0, 1}

Predicates(vt) == [column : PushColumns(vt), op : SqlOps, known : BOOLEAN]

\* lastIndexInfo is <<>> for nil, or holds the IndexInfo.
NoPush ==
    [pc |-> "idle", vt |-> "ops", where |-> <<>>, info |-> NewIndexInfo(<<>>),
     seenOpsOps |-> <<>>, lastIndexInfo |-> <<>>]

pushFrame == <<earlyVars, race, rx, hook, flush, st, walk>>

\* The engine plans SELECT ... FROM vt WHERE p1 AND p2 ...
PushQuery ==
    /\ push.pc = "idle"
    /\ \E vt \in PushTables : \E where \in SeqsUpTo(Predicates(vt), MaxCons) :
         push' = [push EXCEPT !.pc = "draft", !.vt = vt, !.where = where,
                              !.info = NewIndexInfo(Pushdown(where))]
    /\ UNCHANGED pushFrame

\* The table's BestIndex runs on the draft.
PushBestIndex ==
    /\ push.pc = "draft"
    /\ push' = IF push.vt = "ops"
               THEN [push EXCEPT !.pc = "planned",
                                 !.seenOpsOps = opsTableX_BestIndex(push.info)]
               ELSE [push EXCEPT !.pc = "planned",
                                 !.info = dummyTable_BestIndex(push.info),
                                 !.lastIndexInfo = <<dummyTable_BestIndex(push.info)>>]
    /\ UNCHANGED pushFrame

\* The statement is done.
PushDone ==
    /\ push.pc = "planned"
    /\ push' = NoPush
    /\ UNCHANGED pushFrame

----------------------------------------------------------------------------
(* One run of csvTable.flush, step by step, and the files a reader sees.    *)
(* A file is [exists, lines, torn]: torn while a write of it is under way   *)
(* or was cut short.                                                        *)

Absent == [exists |-> FALSE, lines |-> <<>>, torn |-> FALSE]
Whole(lines) == [exists |-> TRUE, lines |-> lines, torn |-> FALSE]

\* buf.Bytes(): the header line, if the table has one, and the rows.
flush_out(t) == (IF t.header THEN <<t.cols>> ELSE <<>>) \o t.rows

\* flush writing over the table's file itself
TmpPath_InPlace(file) == file

\* tmp := t.file + ".tmp"
TmpPath(file) == file \o <<".", "t", "m", "p">>

Paths == {DiskPath, DiskPath \o <<".", "t", "m", "p">>}

NoFlush ==
    [pc |-> "idle", old |-> LoadedTable(<<>>), t |-> LoadedTable(<<>>),
     disk |-> [p \in Paths |-> Absent]]

flushFrame == <<earlyVars, race, push, rx, hook, st, walk>>

\* A write has changed the table from n to m rows in memory; the file holds
\* the table as it was.  flush has filled its buffer.
FlushStart ==
    /\ flush.pc = "idle"
    /\ \E n \in 0..MaxCsvRows, m \in 0..MaxCsvRows, header \in BOOLEAN :
         /\ n # m
         /\ LET old == [CsvTableOf(n) EXCEPT !.header = header]
                new == [CsvTableOf(m) EXCEPT !.header = header, !.nextID = old.nextID]
            IN  flush' = [pc |-> "buffered", old |-> old, t |-> new,
                          disk |-> [p \in Paths |-> IF p = DiskPath THEN Whole(flush_out(old))
                                                    ELSE Absent]]
    /\ UNCHANGED flushFrame

\* os.WriteFile opens tmp, creating or truncating it.
FlushCreate ==
    /\ flush.pc = "buffered"
    /\ \E ok \in BOOLEAN :
         flush' = IF ok
                  THEN [flush EXCEPT !.pc = "writing",
                                     !.disk[TmpPath(DiskPath)] =
                                        [exists |-> TRUE, lines |-> <<>>,
                                         torn |-> flush_out(flush.t) # <<>>]]
                  ELSE [flush EXCEPT !.pc = "failed"]
    /\ UNCHANGED flushFrame

\* os.WriteFile writes the next part of the buffer, or fails.
FlushWrite ==
    /\ flush.pc = "writing"
    /\ LET data == flush_out(flush.t)
           k == Len(flush.disk[TmpPath(DiskPath)].lines)
       IN  /\ k < Len(data)
           /\ \E ok \in BOOLEAN :
                flush' = IF ok
                         THEN [flush EXCEPT !.disk[TmpPath(DiskPath)] =
                                              [exists |-> TRUE, lines |-> SubSeq(data, 1, k + 1),
                                               torn |-> k + 1 < Len(data)]]
                         ELSE [flush EXCEPT !.pc = "failed"]
    /\ UNCHANGED flushFrame

\* os.WriteFile has written all of it and closes tmp.
FlushClose ==
    /\ flush.pc = "writing"
    /\ Len(flush.disk[TmpPath(DiskPath)].lines) = Len(flush_out(flush.t))
    /\ flush' = [flush EXCEPT !.pc = "written"]
    /\ UNCHANGED flushFrame

\* os.Rename(tmp, t.file): the name changes hands in one step, or not at all.
FlushRename ==
    /\ flush.pc = "written"
    /\ \E ok \in BOOLEAN :
         flush' = IF ok
                  THEN [flush EXCEPT
                          !.pc = "done",
                          !.disk = [p \in Paths |->
                                      IF p = DiskPath THEN flush.disk[TmpPath(DiskPath)]
                                      ELSE IF p = TmpPath(DiskPath) THEN Absent
                                      ELSE flush.disk[p]]]
                  ELSE [flush EXCEPT !.pc = "failed"]
    /\ UNCHANGED flushFrame

\* flush has returned, with nil or with the error.
FlushReturn ==
    /\ flush.pc \in {"done", "failed"}
    /\ flush' = NoFlush
    /\ UNCHANGED flushFrame

----------------------------------------------------------------------------
(* stmt.exec and stmt.query: one call, one loop iteration per step.         *)
(*                                                                         *)
(* The SQL text is a sequence of statements, each "empty" (white space or   *)
(* an empty statement: prepareV2 gives the handle 0), "plain" (no           *)
(* parameters), "ints" (parameters bound without allocation) or "bound"     *)
(* (parameters whose bind returns allocations).  Statement handles and      *)
(* allocation lists are numbered in the order they are made: fin[h] counts  *)
(* the finalize calls on handle h, freed[a] the times list a was freed.     *)
(* r is 0 for nil, else the index of a Rows in rows (query) or 1 for the    *)
(* Result (exec).                                                          *)

SqlKinds == {"empty", "plain", "ints", "bound"}

\* What the engine does with one statement.
Outcomes ==
    [prepare : BOOLEAN, bind : BOOLEAN, step : {"row", "done", "error"}, finalize : BOOLEAN]

NoStmtCall ==
    [pc |-> "idle", mode |-> "exec", ctx |-> "background", text |-> <<>>, done |-> 0,
     pstmt |-> 0, allocs |-> 0, r |-> 0, err |-> "nil",
     fin |-> <<>>, outs |-> <<>>, freed |-> <<>>, rows |-> <<>>, both |-> "nil"]

\* conn.finalize: the handle is gone whether or not an error comes back; 0 is no handle.
finalize(s, h) == IF h = 0 THEN s ELSE [s EXCEPT !.fin[h] = @ + 1]

\* conn.free on every element of an allocation list
free(s, a) == IF a = 0 THEN s ELSE [s EXCEPT !.freed[a] = @ + 1]

\* rows.Close: frees the allocations the Rows holds and finalizes its statement.
rows_Close(s, i) ==
    finalize(free([s EXCEPT !.rows[i].closed = TRUE], s.rows[i].allocs), s.rows[i].pstmt)

\* r, err = newRows(c, pstmt, allocs, empty): the Rows takes the handle and the list.
newRows(s, pstmt, allocs, empty) ==
    [s EXCEPT !.rows = Append(@, [pstmt |-> pstmt, allocs |-> allocs, empty |-> empty,
                                  closed |-> FALSE]),
              !.r = Len(s.rows) + 1]

\* pstmt, err = prepareV2(&psql): psql moves past the statement.
prepareV2(s, ok) ==
    IF ~ok THEN [s EXCEPT !.pstmt = 0, !.err = "prepare"]
    ELSE IF Head(s.text) = "empty"
    THEN [s EXCEPT !.text = Tail(@), !.pstmt = 0, !.err = "nil"]
    ELSE [s EXCEPT !.text = Tail(@), !.pstmt = Len(s.fin) + 1, !.err = "nil",
                   !.fin = Append(@, 0), !.outs = Append(@, "none")]

HasParams(kind) == kind \in {"ints", "bound"}

\* The switch on step's result in query's loop body, and what follows it.
query_step(s, step) ==
    LET t == [s EXCEPT !.outs[s.pstmt] = step]
    IN  CASE step = "error" -> [t EXCEPT !.err = "step"]
          [] step = "row" ->
                [newRows(IF t.r # 0 THEN rows_Close(t, t.r) ELSE t, t.pstmt, t.allocs, FALSE)
                    EXCEPT !.pstmt = 0]
          [] t.r = 0 -> [newRows(t, t.pstmt, t.allocs, TRUE) EXCEPT !.pstmt = 0]
          [] t.text = <<>> ->
                [newRows(rows_Close(t, t.r), t.pstmt, t.allocs, TRUE) EXCEPT !.pstmt = 0]
          [] OTHER -> t

\* One iteration of query's loop.
query_statement(s, o) ==
    LET kind == Head(s.text)
        p == prepareV2(s, o.prepare)
        b == IF ~HasParams(kind) THEN p
             ELSE IF ~o.bind THEN [p EXCEPT !.allocs = 0, !.err = "bind"]
             ELSE IF kind = "ints" THEN [p EXCEPT !.allocs = 0]
             ELSE [p EXCEPT !.allocs = Len(p.freed) + 1, !.freed = Append(@, 0)]
        inner == IF b.err # "nil" THEN b ELSE query_step(b, o.step)
        e == inner.pstmt # 0 /\ ~o.finalize
        f == [finalize(inner, inner.pstmt) EXCEPT
                !.pstmt = 0,
                !.err = IF inner.err = "nil" /\ e THEN "finalize" ELSE inner.err,
                !.both = IF inner.err # "nil" /\ e THEN inner.err ELSE @]
    IN  IF ~o.prepare THEN [p EXCEPT !.r = 0, !.pc = "ret"]
        ELSE IF p.pstmt = 0 THEN p
        ELSE IF f.err # "nil" THEN [f EXCEPT !.r = 0, !.pc = "ret"]
        ELSE f

\* query's deferred function.
query_return(s, ok) ==
    LET a == IF s.ctx # "nil" /\ s.done # 0
             THEN [(IF s.r # 0 THEN rows_Close(s, s.r) ELSE s) EXCEPT !.r = 0, !.err = "ctx"]
             ELSE IF s.r = 0 /\ s.err = "nil" THEN newRows(s, s.pstmt, s.allocs, TRUE)
             ELSE s
    IN  [finalize(a, a.pstmt) EXCEPT
            !.pc = "finished",
            !.err = IF a.pstmt # 0 /\ a.err = "nil" /\ ~ok THEN "finalize" ELSE a.err]

\* exec's loop body without its "pstmt = 0 // done with"
exec_statement_KeepHandle(s, o) ==
    LET kind == Head(s.text)
        p == prepareV2(s, o.prepare)
        b == IF ~HasParams(kind) THEN p
             ELSE IF ~o.bind THEN [p EXCEPT !.err = "bind"]
             ELSE IF kind = "ints" THEN p
             ELSE [p EXCEPT !.freed = Append(@, 1)]
        inner == IF b.err # "nil" THEN b
                 ELSE IF o.step = "error" THEN [b EXCEPT !.outs[b.pstmt] = o.step, !.err = "step"]
                 ELSE [b EXCEPT !.outs[b.pstmt] = o.step, !.r = 1]
        e == ~o.finalize
        f == [finalize(inner, inner.pstmt) EXCEPT
                !.err = IF inner.err = "nil" /\ e THEN "finalize" ELSE inner.err,
                !.both = IF inner.err # "nil" /\ e THEN inner.err ELSE @]
    IN  IF ~o.prepare THEN [p EXCEPT !.r = 0, !.pc = "ret"]
        ELSE IF p.pstmt = 0 THEN p
        ELSE IF f.err # "nil" THEN [f EXCEPT !.r = 0, !.pc = "ret"]
        ELSE f

\* One iteration of exec's loop.  The allocations of a bind are freed when the
\* inner function returns.
exec_statement(s, o) ==
    LET kind == Head(s.text)
        p == prepareV2(s, o.prepare)
        b == IF ~HasParams(kind) THEN p
             ELSE IF ~o.bind THEN [p EXCEPT !.err = "bind"]
             ELSE IF kind = "ints" THEN p
             ELSE [p EXCEPT !.freed = Append(@, 1)]
        inner == IF b.err # "nil" THEN b
                 ELSE IF o.step = "error" THEN [b EXCEPT !.outs[b.pstmt] = o.step, !.err = "step"]
                 ELSE [b EXCEPT !.outs[b.pstmt] = o.step, !.r = 1]
        e == ~o.finalize
        f == [finalize(inner, inner.pstmt) EXCEPT
                !.pstmt = 0,
                !.err = IF inner.err = "nil" /\ e THEN "finalize" ELSE inner.err,
                !.both = IF inner.err # "nil" /\ e THEN inner.err ELSE @]
    IN  IF ~o.prepare THEN [p EXCEPT !.r = 0, !.pc = "ret"]
        ELSE IF p.pstmt = 0 THEN p
        ELSE IF f.err # "nil" THEN [f EXCEPT !.r = 0, !.pc = "ret"]
        ELSE f

\* exec's deferred function.
exec_return(s, ok) ==
    LET a == IF s.ctx # "nil" /\ s.done # 0 THEN [s EXCEPT !.r = 0, !.err = "ctx"] ELSE s
    IN  [finalize(a, a.pstmt) EXCEPT
            !.pc = "finished",
            !.err = IF a.pstmt # 0 /\ a.err = "nil" /\ ~ok THEN "finalize" ELSE a.err]

stFrame == <<earlyVars, race, push, rx, hook, flush, walk>>

\* exec or query is called.  A context that is done already ends the call at
\* once; context.Background() can never be done.
StStart ==
    /\ st.pc = "idle"
    /\ \E mode \in {"exec", "query"}, ctx \in {"background", "live", "done"},
          text \in SeqsUpTo(SqlKinds, MaxSql) :
         st' = IF ctx = "done"
               THEN [NoStmtCall EXCEPT !.pc = "finished", !.mode = mode, !.ctx = ctx,
                                   !.text = text, !.err = "ctx"]
               ELSE [NoStmtCall EXCEPT !.pc = "loop", !.mode = mode, !.ctx = ctx, !.text = text]
    /\ UNCHANGED stFrame

\* The context is cancelled while the call runs: interruptOnDone sets done.
StCancel ==
    /\ st.pc \in {"loop", "ret"}
    /\ st.ctx = "live"
    /\ st.done = 0
    /\ st' = [st EXCEPT !.done = 1]
    /\ UNCHANGED stFrame

\* The loop's condition holds and its body runs once.
StStatement ==
    /\ st.pc = "loop"
    /\ st.text # <<>>
    /\ st.done = 0
    /\ \E o \in Outcomes :
         st' = IF st.mode = "exec" THEN exec_statement(st, o) ELSE query_statement(st, o)
    /\ UNCHANGED stFrame

\* The loop's condition fails: return r, err.
StLoopEnd ==
    /\ st.pc = "loop"
    /\ st.text = <<>> \/ st.done # 0
    /\ st' = [st EXCEPT !.pc = "ret"]
    /\ UNCHANGED stFrame

\* The deferred function runs and the call returns.
StReturn ==
    /\ st.pc = "ret"
    /\ \E ok \in BOOLEAN :
         st' = IF st.mode = "exec" THEN exec_return(st, ok) ELSE query_return(st, ok)
    /\ UNCHANGED stFrame

\* The caller starts over with a fresh statement.
StReset ==
    /\ st.pc = "finished"
    /\ st' = NoStmtCall
    /\ UNCHANGED stFrame

----------------------------------------------------------------------------
(* The engine's scan of one cursor: Filter, then while not Eof: read, Next. *)

WalkKinds == {"dummy", "echo", "upd", "csv"}

\* updaterCursorX.Eof looks at the table's rows.
updaterCursorX_Eof(c, rows) == c.pos >= Len(rows)

Cursor_AtEof(kind, c, rows) ==
    CASE kind = "csv" -> csvCursor_Eof(c)
      [] kind = "upd" -> updaterCursorX_Eof(c, rows)
      [] kind = "echo" -> echoCursor_Eof(c)
      [] OTHER -> Cursor_Eof(c)

\* c is the cursor, plan the arguments of its last Filter, n the length of its window when Filter returned, nexts the
\* Next calls of the loop since, extra the Next calls after the loop ended.
NoWalk ==
    [pc |-> "idle", kind |-> "dummy", trows |-> <<>>, c |-> ClosedCursor,
     plan |-> NoPlan, n |-> 0, nexts |-> 0, extra |-> 0]

WalkRows(w) == IF w.kind = "upd" THEN w.trows ELSE w.c.rows

walkFrame == <<earlyVars, race, push, rx, hook, flush, st>>

\* A cursor is opened on a table.
WalkOpen ==
    /\ walk.pc = "idle"
    /\ \E kind \in WalkKinds : \E rows \in PairTables(kind) :
         walk' = [NoWalk EXCEPT !.pc = "open", !.kind = kind, !.trows = rows,
                                !.c = Table_Open(kind, rows)]
    /\ UNCHANGED walkFrame

\* Filter, on a cursor in any state: the scan starts.
WalkFilter ==
    /\ walk.pc # "idle"
    /\ \E plan \in PairPlans :
         LET d == Cursor_Filter(walk.kind, walk.c, walk.trows, plan)
         IN  walk' = [walk EXCEPT !.pc = "scan", !.c = d, !.plan = plan,
                                  !.n = Len(IF walk.kind = "upd" THEN walk.trows ELSE d.rows),
                                  !.nexts = 0, !.extra = 0]
    /\ UNCHANGED walkFrame

\* One turn of the loop: Eof is false, the row is read, Next.
WalkNext ==
    /\ walk.pc = "scan"
    /\ ~Cursor_AtEof(walk.kind, walk.c, walk.trows)
    /\ walk' = [walk EXCEPT !.c = Cursor_Step(walk.kind, @, walk.trows),
                            !.nexts = @ + 1]
    /\ UNCHANGED walkFrame

\* Eof is true: the loop ends.
WalkEnd ==
    /\ walk.pc = "scan"
    /\ Cursor_AtEof(walk.kind, walk.c, walk.trows)
    /\ walk' = [walk EXCEPT !.pc = "eof"]
    /\ UNCHANGED walkFrame

\* A Next on the cursor after the loop has ended.
WalkExtra ==
    /\ walk.pc = "eof"
    /\ walk.extra < MaxExtra
    /\ walk' = [walk EXCEPT !.c = Cursor_Step(walk.kind, @, walk.trows), !.extra = @ + 1]
    /\ UNCHANGED walkFrame

WalkClose ==
    /\ walk.pc \in {"open", "scan", "eof"}
    /\ walk' = NoWalk
    /\ UNCHANGED walkFrame

----------------------------------------------------------------------------
(* Specifications.                                                         *)


LateIdle ==
    /\ race = NoRace /\ push = NoPush /\ rx = NoRx /\ hook = NoHook /\ flush = NoFlush
    /\ st = NoStmtCall /\ walk = NoWalk

ExtIdle == mcall = NoModCall /\ reg = NoRegistry /\ pair = NoPair /\ LateIdle

Init == BridgeIdle /\ EchoIdle /\ CsvIdle /\ UpdIdle /\ ExtIdle

Next == VtabBestIndex \/ VtabOpen \/ VtabFilter \/ VtabStep \/ VtabFinalize

Spec == Init /\ [][Next]_vars

PlanNext == PlanBestIndex \/ PlanDone

PlanSpec == Init /\ [][PlanNext]_vars

EchoNextStep == EchoOpen \/ EchoFilter \/ EchoNext \/ EchoColumn \/ EchoRowid \/ EchoClose

EchoSpec == Init /\ [][EchoNextStep]_vars

CsvStart == BridgeIdle /\ EchoIdle /\ CsvInit /\ UpdIdle /\ ExtIdle

CsvNextStep == CsvOpen \/ CsvFilter \/ CsvNext \/ CsvColumn \/ CsvRowid \/ CsvClose

CsvSpec == CsvStart /\ [][CsvNextStep]_vars

UpdNextStep == UpdInsert \/ UpdUpdate \/ UpdDelete

UpdSpec == Init /\ [][UpdNextStep]_vars

CsvStoreStep == CsvCreate \/ CsvConnect \/ CsvInsert \/ CsvUpdate \/ CsvDelete

\* The two tables that take writes.  They share no state, so a behaviour that
\* writes both is an interleaving of a behaviour of each: they are explored one
\* at a time.
WriteNext == (clast.op = "none" /\ UpdNextStep) \/ (ulast.op = "none" /\ CsvStoreStep)

WriteSpec == Init /\ [][WriteNext]_vars

StoreSpec == Init /\ [][CsvStoreStep]_vars

CreateNext == ModCreate \/ ModReturn

CreateSpec == Init /\ [][CreateNext]_vars

RegNext == RegRegister \/ RegOpen \/ RegCreateVTab

RegSpec == Init /\ [][RegNext]_vars

PairStep ==
    PairCreate \/ PairOpen \/ PairFilter \/ PairNext \/ PairColumn \/ PairRowid \/ PairClose

PairSpec == Init /\ [][PairStep]_vars

RaceStep == RaceStart \/ RaceReadNextID \/ RaceWriteNextID \/ RaceReadRows \/ RaceWriteRows

RaceSpec == Init /\ [][RaceStep]_vars

RxNext == RxStart \/ RxFilter \/ RxStep \/ RxFinish

RxSpec == Init /\ [][RxNext]_vars

HookNext == HookInsert \/ HookUpdate \/ HookDelete \/ HookNoRow

HookSpec == Init /\ [][HookNext]_vars

PushNext == PushQuery \/ PushBestIndex \/ PushDone

PushSpec == Init /\ [][PushNext]_vars

StNext == StStart \/ StCancel \/ StStatement \/ StLoopEnd \/ StReturn \/ StReset

StSpec == Init /\ [][StNext]_vars

WalkStep == WalkOpen \/ WalkFilter \/ WalkNext \/ WalkEnd \/ WalkExtra \/ WalkClose

WalkSpec == Init /\ [][WalkStep]_vars

FlushNext ==
    FlushStart \/ FlushCreate \/ FlushWrite \/ FlushClose \/ FlushRename \/ FlushReturn

FlushSpec == Init /\ [][FlushNext]_vars

----------------------------------------------------------------------------
(* Properties.                                                             *)

Requested(inf) == {i \in 1..Len(inf.Constraints) : inf.Constraints[i].ArgIndex # NotRequested}

\* C1: an IdxNum outside [-2^31, 2^31-1] fails the statement with an error that
\* names IdxNum and int32, and nothing is written to the engine's index info nor
\* is Filter called; the overflow fixture (IdxNum = MaxInt32 + 1) always fails so.
C1_IdxNumOverflowRejected ==
    LET rejected == /\ pc = "failed"
                    /\ {"IdxNum", "int32"} \subseteq err
                    /\ eng = NoEngine
                    /\ ~fcall.called
    IN  /\ (pc # "idle" /\ ~IdxNumFits(info.IdxNum)) => rejected
        /\ (pc # "idle" /\ module = "overflow_idx") => rejected

C1_Witness ==
    /\ module = "overflow_idx" /\ pc = "failed" /\ err = ErrIdxNum
    /\ info.IdxNum = [hi |-> 32768, lo |-> 0]

\* C2: a Column result that is no nil, int64, float64, string or []byte is never
\* delivered, neither as it is nor as NULL: the statement stays on that row until
\* it fails, and its error says "did not return a valid driver.Value".
C2_UnsupportedValueFails ==
    /\ \A k \in 1..Len(out) : out[k].t \in ScalarTypes
    /\ module = "badcol" =>
         /\ out = <<>>
         /\ pc # "done"
         /\ pc = "scan" => cur.pos = 0
         /\ (pc = "failed" /\ fcall.called) =>
              "did not return a valid driver.Value" \in err

C2_Witness ==
    /\ module = "badcol" /\ pc = "failed" /\ fcall.called
    /\ err = ErrBadValue /\ out = <<>>

\* The right-hand sides of the usable EQ constraints, in the order of the constraints.
UsableEqRhs(cs) ==
    LET Hit(c) == c.usable /\ c.op = "EQ"
        sel == SelectSeq(cs, Hit)
    IN  [k \in 1..Len(sel) |-> sel[k].rhs]

\* C3: Filter receives as many values as BestIndex requested slots, and vals[k]
\* is the right-hand side of the constraint given ArgIndex k; for argIndexTable
\* these are the usable EQ constraints' values in their order (10, 20).
C3_FilterArgsByArgIndex ==
    /\ fcall.called =>
         /\ Len(fcall.vals) = Cardinality(Requested(info))
         /\ \A i \in Requested(info) :
              fcall.vals[info.Constraints[i].ArgIndex + 1] = cons[i].rhs
    /\ module = "argtest" =>
         /\ pc # "failed"
         /\ fcall.called => fcall.vals = UsableEqRhs(cons)

C3_Witness ==
    /\ module = "argtest" /\ fcall.called
    /\ Len(cons) = 2 /\ cons[1].column = 0 /\ cons[2].column = 1
    /\ fcall.vals = <<VInt(10), VInt(20)>>

\* C4: Filter receives exactly the IdxNum and IdxStr that the statement's
\* BestIndex set, and is called only with such a plan tag; dummyCursor, which
\* answers "unexpected" to any idxNum but dummyTable's 1, never does.
C4_FilterGetsPlanTag ==
    /\ fcall.called =>
         /\ IdxNumFits(info.IdxNum)
         /\ Wide(fcall.idxNum) = info.IdxNum
         /\ fcall.idxStr = info.IdxStr
    /\ (module = "dummy" /\ fcall.called) =>
         cur.rows = <<Row(1, VText(s_alpha)), Row(2, VText(s_beta))>>

C4_Witness ==
    /\ module = "any" /\ fcall.called
    /\ fcall.idxNum = MaxInt32 /\ fcall.idxStr = <<"p">>

OmitRowCol(r, col) == IF col = 0 THEN r.val ELSE VNull

\* C6: with Omit=true on the exploited constraint (the first usable EQ on column
\* 0) the engine does not evaluate it, so the statement returns every cursor row
\* that passes the other constraints (both rows for WHERE val = 'alpha'); with
\* Omit=false it returns only the rows that satisfy every constraint.
C6_OmitSkipsRecheck ==
    (pc = "done" /\ module \in {"omit_on", "omit_off"}) =>
      LET Hit(c) == c.usable /\ c.op = "EQ" /\ c.column = 0
          hits == {i \in 1..Len(cons) : Hit(cons[i])}
          first == IF hits = {} THEN 0 ELSE CHOOSE i \in hits : \A j \in hits : i <= j
          rows == <<Row(1, VText(s_alpha)), Row(2, VText(s_beta))>>
          Pass(r) == \A i \in 1..Len(cons) :
                        \/ module = "omit_on" /\ i = first
                        \/ Satisfies(cons[i], OmitRowCol(r, cons[i].column))
          kept == SelectSeq(rows, Pass)
      IN  out = [k \in 1..Len(kept) |-> kept[k].val]

C6_Witness ==
    /\ pc = "done" /\ module = "omit_on"
    /\ cons = <<[column |-> 0, op |-> "EQ", usable |-> TRUE, rhs |-> VText(s_alpha)]>>
    /\ out = <<VText(s_alpha), VText(s_beta)>>

\* C7: after Filter(1, _, [v]) on an echo cursor every row of the window, and so
\* every value Column(0) yields before Eof, equals v under SQL equality, whatever
\* the type of v; for a v that equals no row of the data set the window is empty.
C7_EchoEqExact ==
    (eflt.called /\ eflt.idxNum = 1 /\ Len(eflt.vals) = 1) =>
      /\ \A k \in 1..Len(ecur.rows) : SqlEq(VText(ecur.rows[k]), eflt.vals[1])
      /\ (ecall.op = "Column" /\ ecall.col = 0 /\ ~echoCursor_Eof(ecur)) =>
           SqlEq(ecall.ret, eflt.vals[1])
      /\ (\A k \in 1..Len(echoAll) : ~SqlEq(VText(echoAll[k]), eflt.vals[1])) =>
           ecur.rows = <<>>

C7_Witness ==
    /\ eflt.called /\ eflt.idxNum = 1 /\ eflt.vals = <<VText(s_alpha)>>
    /\ ecall.op = "Column" /\ ecall.col = 0 /\ ecall.ret = VText(s_alpha)

\* C8: after Filter(1, k, [v]) on a csv cursor, k a declared column, every row of
\* the window has a column k that equals v under SQL equality, for v of any
\* scalar type.
C8_CsvEqExact ==
    LET col == Atoi(cflt.idxStr)
    IN  (/\ cflt.called /\ cflt.idxNum = 1 /\ Len(cflt.vals) = 1
         /\ col.ok /\ col.n >= 0 /\ col.n < Len(ctab.cols)) =>
          \A k \in 1..Len(ccur.rows) :
             SqlEq(VText(ccur.rows[k][col.n + 1]), cflt.vals[1])

\* C9: a rowid that Insert chooses for the zero sentinel is larger than the one
\* it chose before and was never held by any row of the table.
C9_AutoRowidsFresh ==
    [][(ulast'.op = "Insert" /\ ulast'.rowidIn = 0) =>
         /\ ulast'.rowidOut \notin uhist.held
         /\ ulast'.rowidOut > uhist.lastAuto]_vars

\* C10: Insert with *rowid = 0 stores the row under nextID, with *rowid = r # 0
\* under r; it leaves that id in *rowid, appends exactly one row and changes no
\* row that was there.
C10_InsertStoresRow ==
    [][ulast'.op = "Insert" =>
         LET id == IF ulast'.rowidIn = 0 THEN utab.nextID ELSE ulast'.rowidIn
             n == Len(utab.rows)
         IN  /\ Len(utab'.rows) = n + 1
             /\ SubSeq(utab'.rows, 1, n) = utab.rows
             /\ utab'.rows[n + 1].id = id
             /\ ulast'.rowidOut = id
             /\ ~ulast'.err]_vars

C10_Witness ==
    /\ ulast.op = "Insert" /\ ulast.rowidIn = 2 /\ ulast.rowidOut = 2
    /\ Len(utab.rows) = 2 /\ utab.rows[1].id = 1 /\ utab.rows[2].id = 2
    /\ utab.rows[2].val = <<"B">> /\ utab.nextID = 3

\* The index of the first row of the updater table whose id is r, or 0.
FirstWithId(rows, r) ==
    LET hits == {i \in 1..Len(rows) : rows[i].id = r}
    IN  IF hits = {} THEN 0 ELSE CHOOSE i \in hits : \A j \in hits : i <= j

\* C11: Update of an existing row stores the new value in that row (the text
\* itself when the value is a text) and keeps its rowid, unless newRowid is
\* non-nil, non-zero and not oldRowid, when that row's rowid becomes *newRowid;
\* the number and order of the rows, every other row and nextID do not change.
C11_UpdateFrame ==
    [][(ulast'.op = "Update" /\ FirstWithId(utab.rows, ulast'.old) # 0) =>
         LET i == FirstWithId(utab.rows, ulast'.old)
             v == ulast'.cols[1]
             moved == ulast'.rowidIn # 0 /\ ulast'.rowidIn # ulast'.old
         IN  /\ ~ulast'.err
             /\ Len(utab'.rows) = Len(utab.rows)
             /\ \A j \in 1..Len(utab.rows) : j # i => utab'.rows[j] = utab.rows[j]
             /\ utab'.rows[i].val = AsString(v)
             /\ v.t = "text" => utab'.rows[i].val = v.s
             /\ utab'.rows[i].id = IF moved THEN ulast'.rowidIn ELSE ulast'.old
             /\ ~moved => RowIds(utab') = RowIds(utab)
             /\ utab'.nextID = utab.nextID]_vars

C11_Witness ==
    /\ ulast.op = "Update" /\ ~ulast.err /\ ulast.old = 2 /\ ulast.rowidIn = 0
    /\ ulast.cols = <<VText(<<"B">>)>>
    /\ utab.rows = <<[id |-> 1, val |-> <<"A">>], [id |-> 2, val |-> <<"B">>]>>

\* C13: Delete(r) on a table with a row of rowid r removes one row, the first
\* with that rowid: the rows before it and after it keep their rowid, value and
\* order, and nextID does not change.
C13_DeleteFrame ==
    [][(ulast'.op = "Delete" /\ FirstWithId(utab.rows, ulast'.old) # 0) =>
         LET i == FirstWithId(utab.rows, ulast'.old)
             n == Len(utab.rows)
         IN  /\ ~ulast'.err
             /\ Len(utab'.rows) = n - 1
             /\ SubSeq(utab'.rows, 1, i - 1) = SubSeq(utab.rows, 1, i - 1)
             /\ SubSeq(utab'.rows, i, n - 1) = SubSeq(utab.rows, i + 1, n)
             /\ utab'.nextID = utab.nextID]_vars

C13_Witness ==
    /\ ulast.op = "Delete" /\ ~ulast.err /\ ulast.old = 1
    /\ utab.rows = <<[id |-> 2, val |-> <<"B">>]>> /\ utab.nextID = 3

\* C12: Update or Delete with a rowid that names no row (updaterTableX: no row
\* has that id; csvTable: the rowid is no position of a row) returns an error and
\* leaves the table as it was; the csv table leaves the file as it was, too.
C12_AbsentRowidFails ==
    [][/\ (/\ ulast'.op \in {"Update", "Delete"} /\ csvVars' = csvVars
           /\ FirstWithId(utab.rows, ulast'.old) = 0) =>
             (ulast'.err /\ utab' = utab)
       /\ (/\ clast'.op \in {"Update", "Delete"} /\ updVars' = updVars
           /\ ~clast'.named) =>
             (clast'.err /\ ctab' = ctab /\ cfile' = cfile)]_vars

C12_Witness ==
    /\ clast.op = "Update" /\ ~clast.named /\ clast.err
    /\ ctab.rows = <<(<<(<<"a">>), NoStr>>)>> /\ ctab.nextID = 2
    /\ cfile = FileOf(<<CsvCols>> \o ctab.rows)

\* C14: when Insert, Update or Delete of the csv table returns an error, the
\* table's rows and nextID are what they were before the call.
C14_CsvErrorKeepsTable ==
    [][(clast'.op \in {"Insert", "Update", "Delete"} /\ clast'.err) =>
         (ctab'.rows = ctab.rows /\ ctab'.nextID = ctab.nextID)]_vars

\* C15: after a successful Insert, Update or Delete of the csv table, a Connect
\* with the same arguments on the file gives a table with the same rows in the
\* same order and the same nextID.
C15_ConnectReproduces ==
    (clast.op \in {"Insert", "Update", "Delete"} /\ ~clast.err) =>
      LET again == csvModule_Create(clast.args, cfile, FALSE)
      IN  again.ok /\ again.t.rows = ctab.rows /\ again.t.nextID = ctab.nextID

\* The value of the last token with the given key, unquoted; "" if there is none.
LastValue(tokens, key) ==
    LET named == {i \in 1..Len(tokens) : SplitEq(tokens[i]).k = key}
        last == CHOOSE i \in named : \A j \in named : j <= i
    IN  IF named = {} THEN NoStr
        ELSE IF SplitEq(tokens[last]).two THEN unquote(SplitEq(tokens[last]).v)
        ELSE NoStr

\* C16: a Create or Connect call of dummyModule, echoModule, csvModule or
\* updaterModuleX that returns a table has called ctx.Declare exactly once, and
\* a call whose ctx.Declare failed returns that error and no table.
C16_DeclareOnce ==
    mcall.op # "none" =>
      /\ mcall.res.ok => mcall.res.declares = 1
      /\ (mcall.declErr /\ mcall.res.declares > 0) =>
           (~mcall.res.ok /\ mcall.res.err = "declare")

\* C17: csvModule.Create and Connect use the value of the last filename token;
\* tokens with other keys do not change which file that is.  When that value is
\* empty or there is no such token the call returns the "require filename"
\* error and no table, reads no file and does not call ctx.Declare; otherwise
\* it reads the file of that name and no other.
C17_CsvFilenameRequired ==
    (mcall.op # "none" /\ mcall.module = "csv" /\ Len(mcall.args) >= 3) =>
      LET tokens == SubSeq(mcall.args, 4, Len(mcall.args))
          file == LastValue(tokens, k_filename)
      IN  /\ mcall.res.read = file
          /\ file = NoStr =>
               /\ ~mcall.res.ok /\ mcall.res.declares = 0
               /\ mcall.res.err = "csv: require filename=... arg"
          /\ mcall.res.ok => file = DiskPath

C17_Witness ==
    /\ mcall.module = "csv" /\ mcall.op = "Create"
    /\ mcall.args = ArgsOf(<<t_file, t_empty>>)
    /\ ~mcall.res.ok /\ mcall.res.read = NoStr /\ mcall.res.declares = 0


\* C18: Register fails when the name is already bound or the module is nil, and
\* then leaves the registry as it was; a Register that succeeds binds the name,
\* and every later CREATE VIRTUAL TABLE ... USING name, on any connection, also
\* one opened after the registration, gets the module that was registered.
C18_RegisterContract ==
    [][/\ reg'.op = "Register" =>
            IF reg'.module = NilModule \/ reg.bound[reg'.name] # Unbound
            THEN reg'.err /\ reg'.bound = reg.bound
            ELSE ~reg'.err /\ reg'.bound = [reg.bound EXCEPT ![reg'.name] = reg'.module]
       /\ reg'.op = "CreateVTab" /\ reg.first[reg'.name] # Unbound =>
            ~reg'.err /\ reg'.got = reg.first[reg'.name]]_vars

\* Every connection is open, and one opened after a name was registered has
\* created a table with the module registered under it.
C18_Witness ==
    /\ reg.op = "CreateVTab" /\ ~reg.err
    /\ reg.got = reg.first[reg.name]
    /\ reg.db > reg.since[reg.name]
    /\ reg.dbs = MaxCons

\* C19: whenever the application's code panics inside a callback (Column or
\* Rowid indexing rows[pos] with pos at or past the end), the dispatcher hands
\* the engine an ordinary error: the panic never unwinds into the engine.
C19_PanicIsError == pair.panic => pair.rc = "error"

\* updaterCursorX.Rowid has panicked on a cursor at the end of its table.
C19_Witness ==
    /\ pair.kind = "upd" /\ pair.op = "Rowid" /\ pair.panic /\ pair.rc = "error"
    /\ pair.objs[pair.h[pair.who]].pos >= Len(pair.trows)

\* C20: a Filter, Next or Close on one cursor leaves the position and the row
\* window of the other cursor on the same table (csvTable, updaterTableX,
\* echoTable) as they were.
C20_SiblingUnchanged ==
    [][\A i \in 1..2 :
         /\ pair'.op \in {"Filter", "Next", "Close"} /\ pair'.who = i
         /\ pair.kind \in {"csv", "upd", "echo"}
         /\ pair.h[3 - i] # 0
         => /\ pair'.h[3 - i] # 0
            /\ pair'.objs[pair'.h[3 - i]].pos = pair.objs[pair.h[3 - i]].pos
            /\ Window(pair', 3 - i) = Window(pair, 3 - i)]_vars

\* Two csv cursors are open on a table of two rows; the second was filtered
\* down to one row and stands at its end, and the first has just been moved.
C20_Witness ==
    /\ pair.kind = "csv" /\ pair.op = "Next" /\ pair.who = 1
    /\ pair.h[1] # 0 /\ pair.h[2] # 0
    /\ Len(Window(pair, 2)) = 1 /\ pair.objs[pair.h[2]].pos = 1
    /\ Len(Window(pair, 1)) = 2 /\ pair.objs[pair.h[1]].pos = 2

\* C21: once two concurrent Insert calls with rowid 0 on one table have both
\* returned, both rows are stored, the two rowids differ, and nextID has
\* advanced by exactly two.
C21_ConcurrentInserts ==
    race.th[1].pc = "done" /\ race.th[2].pc = "done" =>
        /\ Len(race.t.rows) = race.first - 1 + 2
        /\ race.th[1].id # race.th[2].id
        /\ \A i \in 1..2 : \E k \in 1..Len(race.t.rows) : race.t.rows[k].id = race.th[i].id
        /\ race.t.nextID = race.first + 2

\* C22: a Column call on a cursor past its last row, or for an index outside
\* the declared columns, fails: it does not return a value.
C22_ColumnOutOfBoundsFails ==
    /\ ccall.op = "Column"
    /\ csvCursor_Eof(ccur) \/ ccall.col < 0 \/ ccall.col >= Len(ctab.cols)
    => ccall.ret.t \in {"error", "panic"}

\* C23: a Next on a cursor that is not at Eof moves its position by exactly one
\* and changes neither its row window nor the table; a Next at Eof changes
\* nothing; no Next returns an error, and the position never passes the number
\* of rows in the window.
C23_NextByOne ==
    [][\A i \in 1..2 :
         pair'.op = "Next" /\ pair'.who = i =>
            LET c == pair.objs[pair.h[i]]
                d == pair'.objs[pair'.h[i]]
            IN  /\ pair'.h = pair.h
                /\ d.pos = IF c.pos < Len(Window(pair, i)) THEN c.pos + 1 ELSE c.pos
                /\ d.pos <= Len(Window(pair', i))
                /\ Window(pair', i) = Window(pair, i)
                /\ pair'.trows = pair.trows
                /\ pair'.rc = "ok"]_vars

\* A csv cursor over two rows has been moved onto its end by Next.
C23_Witness ==
    /\ pair.kind = "csv" /\ pair.op = "Next" /\ pair.h[pair.who] # 0
    /\ Len(Window(pair, pair.who)) = 2
    /\ pair.objs[pair.h[pair.who]].pos = 2

\* C24: a Filter on a cursor in any state puts the position at 0 and gives the
\* row window a Filter with the same arguments gives on a cursor just opened on
\* the table: the window depends on (idxNum, idxStr, argv) and the table only,
\* and a second Filter with the same arguments changes nothing.
C24_FilterStartsOver ==
    [][\A i \in 1..2 :
         pair'.op = "Filter" /\ pair'.who = i =>
            LET d == pair'.objs[pair'.h[i]]
                fresh == Cursor_Filter(pair.kind, Table_Open(pair.kind, pair.trows),
                                       pair.trows, pair'.plan)
            IN  /\ d.pos = 0
                /\ Window(pair', i) = (IF pair.kind = "upd" THEN pair.trows ELSE fresh.rows)
                /\ Cursor_Filter(pair.kind, d, pair.trows, pair'.plan) = d]_vars

\* A csv cursor that stood at the end of a window of one row has been filtered
\* with the full-scan plan and holds the two rows of the table again.
C24_Witness ==
    /\ pair.kind = "csv" /\ pair.op = "Filter" /\ pair.plan.idxNum = 0
    /\ pair.prev = [pos |-> 1, n |-> 1]
    /\ Len(Window(pair, pair.who)) = 2 /\ pair.objs[pair.h[pair.who]].pos = 0

\* C25: the rowid a csv cursor reports for its current row is the identity of
\* that row, whichever plan the scan uses: the row that Update and Delete find
\* under this rowid (rows[rowid-1]) is the row the cursor stands on.
C25_RowidNamesRow ==
    ccall.op = "Rowid" /\ ~csvCursor_Eof(ccur) =>
        /\ ccall.ret.i \in 1..Len(ctab.rows)
        /\ ctab.rows[ccall.ret.i] = ccur.rows[ccur.pos + 1]

\* The constraints of the statement that a provider's plan can use.
Exploitable(m, c) ==
    CASE m = "echo" -> c.usable /\ c.column = 0 /\ c.op \in {"EQ", "LIKE"}
      [] m = "match" -> c.usable /\ c.column = 0 /\ c.op = "MATCH"
      [] OTHER -> c.usable /\ c.op = "EQ" /\ c.column \in 0..(Len(CsvCols) - 1)

\* C26: when the statement has no usable constraint that echoTable, matchTable
\* or csvTable exploits, BestIndex leaves IdxNum = 0 and sets no ArgIndex and no
\* Omit, and the Filter call of that plan (idxNum 0, no argument) yields every
\* row of the table.
C26_NoHitFullScan ==
    /\ pc = "planned" /\ module \in {"echo", "match", "csv"}
    /\ \A i \in 1..Len(cons) : ~Exploitable(module, cons[i])
    => /\ info.IdxNum = Wide(0)
       /\ \A i \in 1..Len(info.Constraints) :
            info.Constraints[i].ArgIndex = NotRequested /\ ~info.Constraints[i].Omit
       /\ CASE module = "echo" ->
                 echoCursor_Filter(echoTable_Open, Narrow(info.IdxNum), info.IdxStr, <<>>).rows
                   = echoAll
            [] module = "match" ->
                 matchCursor_Filter(matchTable_Open, Narrow(info.IdxNum), info.IdxStr, <<>>).rows
                   = matchAll
            [] OTHER ->
                 \A n \in 0..MaxCsvRows :
                   csvCursor_Filter(csvTable_Open(CsvTableOf(n)), CsvTableOf(n),
                                    Narrow(info.IdxNum), info.IdxStr, <<>>).rows
                     = CsvTableOf(n).rows

\* csvTable.BestIndex has planned a statement whose only usable equality is on
\* a column the table does not declare.
C26_Witness ==
    /\ pc = "planned" /\ module = "csv" /\ Len(cons) = MaxCons
    /\ \E i \in 1..Len(cons) : cons[i].usable /\ cons[i].op = "EQ" /\ cons[i].column = 2
    /\ \A i \in 1..Len(cons) : ~Exploitable(module, cons[i])
    /\ info.IdxNum = Wide(0)

\* C28: for every pattern, SELECT val FROM t WHERE val REGEXP p gives the same
\* rows (and the same error, if any) on the re table created with omit=true as
\* on the one created without it.
C28_OmitSameRows ==
    /\ rx.op = "query"
    /\ \A i \in 1..2 : rx.run[i].pc \in {"done", "failed"}
    => /\ rx.run[1].out = rx.run[2].out
       /\ rx.run[1].err = rx.run[2].err

C30_NoTornFile ==
    flush.pc # "idle" =>
        flush.disk[DiskPath] =
            Whole(flush_out(IF flush.pc = "done" THEN flush.t ELSE flush.old))

\* flush has failed in the middle of its write: the temporary file is partly
\* written and the table's file still holds the earlier table.
C30_Witness ==
    /\ flush.pc = "failed"
    /\ flush.disk[TmpPath(DiskPath)].torn
    /\ flush.disk[TmpPath(DiskPath)].lines # <<>>
    /\ flush.disk[DiskPath] = Whole(flush_out(flush.old))

\* C27: every predicate column = x, column IS NULL, column LIKE x or column
\* GLOB x of the WHERE clause whose operand is known at plan time is, in the
\* IndexInfo the table's BestIndex ran on, a constraint on that column with
\* Op EQ, ISNULL, LIKE or GLOB respectively and Usable true; the ops table
\* has recorded that Op, the dummy table holds the constraint.
C27_PushdownFidelity ==
    push.pc = "planned" =>
        \A i \in 1..Len(push.where) :
            LET p == push.where[i]
                want == CASE p.op = "=" -> "EQ"
                          [] p.op = "IS NULL" -> "ISNULL"
                          [] p.op = "LIKE" -> "LIKE"
                          [] p.op = "GLOB" -> "GLOB"
                Is(c) == c.Column = p.column /\ c.Op = want /\ c.Usable
            IN  p.known =>
                  /\ \E j \in 1..Len(push.info.Constraints) : Is(push.info.Constraints[j])
                  /\ push.vt = "ops" =>
                        \E j \in 1..Len(push.seenOpsOps) : push.seenOpsOps[j] = want
                  /\ push.vt = "dummy" =>
                        /\ push.lastIndexInfo # <<>>
                        /\ \E j \in 1..Len(push.lastIndexInfo[1].Constraints) :
                              Is(push.lastIndexInfo[1].Constraints[j])

\* SELECT rowid FROM ovt WHERE c1 GLOB 'a*' has been planned and the ops table
\* has seen the GLOB constraint.
C27_Witness ==
    /\ push.pc = "planned"
    /\ push.vt = "ops"
    /\ push.where = <<[column |-> 0, op |-> "GLOB", known |-> TRUE]>>
    /\ push.seenOpsOps = <<"GLOB">>

\* C31: after any sequence of Insert, Update and Delete calls on an
\* updaterTableX no two rows of the table have the same rowid.
C31_RowidsDistinct ==
    \A i \in 1..Len(utab.rows), j \in 1..Len(utab.rows) :
        i # j => utab.rows[i].id # utab.rows[j].id

\* str LIKE pat as the engine evaluates it: % stands for any run of
\* characters, _ for any one character, letters match without regard to case.
RECURSIVE SqlLike(_, _)
SqlLike(pat, str) ==
    IF pat = <<>> THEN str = <<>>
    ELSE IF Head(pat) = "%"
    THEN \E k \in 0..Len(str) : SqlLike(Tail(pat), SubSeq(str, k + 1, Len(str)))
    ELSE /\ str # <<>>
         /\ Head(pat) = "_" \/ LowerCh(Head(pat)) = LowerCh(Head(str))
         /\ SqlLike(Tail(pat), Tail(str))

\* C32: after Filter(2, _, [p]) with a text pattern p the echo cursor's rows
\* include every row of the data set that matches val LIKE p.
C32_LikeKeepsMatches ==
    (/\ ecur.open
     /\ eflt.called
     /\ eflt.idxNum = 2
     /\ Len(eflt.vals) = 1
     /\ eflt.vals[1].t = "text")
    => \A i \in 1..Len(echoAll) :
          SqlLike(eflt.vals[1].s, echoAll[i])
          => \E j \in 1..Len(ecur.rows) : ecur.rows[j] = echoAll[i]

\* C33: when stmt.query has returned, every Rows it created other than the
\* one it returns has been closed, and every statement it prepared that the
\* returned Rows does not own has been finalized.
C33_QueryLeavesNothingOpen ==
    (st.pc = "finished" /\ st.mode = "query") =>
        /\ \A i \in 1..Len(st.rows) : i # st.r => st.rows[i].closed
        /\ \A h \in 1..Len(st.fin) :
              st.fin[h] = 0 => (st.r # 0 /\ st.rows[st.r].pstmt = h)

\* C34: when every statement of the text has succeeded and nothing was
\* cancelled, stmt.query returns a Rows on the last non-empty statement of the
\* text: with rows if that statement stepped to a row, empty if it was done.
C34_QueryReturnsLastStatement ==
    (/\ st.pc = "finished"
     /\ st.mode = "query"
     /\ st.done = 0
     /\ st.err = "nil"
     /\ Len(st.fin) >= 1)
    => /\ st.r # 0
       /\ st.rows[st.r].pstmt = Len(st.fin)
       /\ st.rows[st.r].empty = (st.outs[Len(st.fin)] = "done")
       /\ ~st.rows[st.r].closed

\* C35: when stmt.query has returned, every allocation list bind returned is
\* held by exactly one Rows that is still open, or has been freed (once); none
\* is left unfreed without such a Rows.
C35_QueryAllocsAccounted ==
    (st.pc = "finished" /\ st.mode = "query") =>
        \A a \in 1..Len(st.freed) :
            LET holders == {i \in 1..Len(st.rows) : st.rows[i].allocs = a}
            IN  /\ Cardinality(holders) <= 1
                /\ st.freed[a] <= 1
                /\ st.freed[a] = 0 =>
                      (holders # {} /\ \A i \in holders : ~st.rows[i].closed)

\* C36 as stated: in stmt.exec every statement handle prepared is finalized
\* exactly once on every path, and when the statement and its finalize both
\* fail the error returned is the statement's.
C36_ExecFinalizesOnce_Stated ==
    (st.pc = "finished" /\ st.mode = "exec") =>
        /\ \A h \in 1..Len(st.fin) : st.fin[h] = 1
        /\ st.both # "nil" => st.err = st.both

\* C36: in stmt.exec every statement handle prepared is finalized exactly
\* once on every path; when the statement and its finalize both fail the
\* error returned is the statement's, unless the interrupt flag is set at the
\* return, when it is the context's error.
C36_ExecFinalizesOnce ==
    (st.pc = "finished" /\ st.mode = "exec") =>
        /\ \A h \in 1..Len(st.fin) : st.fin[h] = 1
        /\ st.both # "nil" => st.err = IF st.done # 0 THEN "ctx" ELSE st.both

\* exec has returned the step error of its second statement, whose finalize
\* failed as well; both handles were finalized.
C36_Witness ==
    /\ st.pc = "finished"
    /\ st.mode = "exec"
    /\ st.done = 0
    /\ Len(st.fin) = 2
    /\ st.both = "step"
    /\ st.err = "step"

\* C37: called with a context that is done, exec and query return nil and the
\* context's error and prepare nothing; and whenever the interrupt flag is set
\* at the return they return nil and the context's error, and every Rows that
\* was created is closed.
C37_CancelledReturnsCtxErr ==
    st.pc = "finished" =>
        /\ st.ctx = "done" => (st.r = 0 /\ st.err = "ctx" /\ st.fin = <<>>)
        /\ st.done # 0 =>
              /\ st.r = 0
              /\ st.err = "ctx"
              /\ \A i \in 1..Len(st.rows) : st.rows[i].closed

\* C38: after a Filter that leaves a window of n rows, the scan loop (while
\* not Eof: read, Next) has made at most n Next calls, Eof is true exactly when
\* it has made n, and once the loop has ended Eof stays true under further Next
\* calls until the next Filter.
C38_ScanEndsAfterWindow ==
    walk.pc \in {"scan", "eof"} =>
        /\ walk.nexts <= walk.n
        /\ Cursor_AtEof(walk.kind, walk.c, walk.trows) <=> walk.nexts = walk.n
        /\ Len(WalkRows(walk)) = walk.n
        /\ walk.pc = "eof" => Cursor_AtEof(walk.kind, walk.c, walk.trows)

\* The scan of an echo cursor over the two rows of the LIKE plan has ended
\* after two Next calls, and two more Next calls have left it at its end.
C38_Witness ==
    /\ walk.pc = "eof"
    /\ walk.kind = "echo"
    /\ walk.n = 2
    /\ walk.nexts = 2
    /\ walk.extra = MaxExtra
    /\ echoCursor_Eof(walk.c)

\* C39: after any sequence of Insert, Update and Delete on a csv table, the
\* rowid an Insert writes back is the rowid a full scan made after it reports
\* for the row just inserted (the last row of the scan).
C39_InsertRowidIsScanRowid ==
    (clast.op \in {"Create", "Connect", "Insert", "Update", "Delete"} /\ clast.connected) =>
        \A cols \in StoreCols :
            LET res == csvTable_Insert(ctab, cfile, cols, 0, "ok")
                scanned == csvCursor_Filter(csvTable_Open(res.t), res.t, 0, NoStr, <<>>)
                last == [scanned EXCEPT !.pos = Len(scanned.rows) - 1]
            IN  csvCursor_Rowid(last) = res.rowid

\* C40: after loadCSV and after any sequence of Insert, Update and Delete every
\* row of a csv table has exactly len(cols) fields, so Column(col) with
\* 0 <= col < len(cols) on a cursor standing on a row never indexes outside it.
C40_RowsFitColumns ==
    clast.connected =>
        /\ \A i \in 1..Len(ctab.rows) : Len(ctab.rows[i]) = Len(ctab.cols)
        /\ \A i \in 1..Len(ctab.rows), col \in 0..(Len(ctab.cols) - 1) :
              csvCursor_Column([csvTable_Open(ctab) EXCEPT !.pos = i - 1], ctab, col) # Panic

\* A table whose first row was loaded from a record of three fields and cut to
\* the two columns, and whose second row was inserted with one value and padded.
C40_Witness ==
    /\ clast.op = "Insert" /\ ~clast.err
    /\ Len(ctab.cols) = 2
    /\ Len(ctab.rows) = 2
    /\ ctab.rows[1] = <<(<<"5">>), (<<"6">>)>>
    /\ ctab.rows[2] = <<(<<"5">>), NoStr>>

====
